---- MODULE Spec2Model ----
(***************************************************************************)
(* A model of the lottery-results bridge (server/Run-Server.bat, the       *)
(* revision with the America/New_York clock, Georgia and Pennsylvania):    *)
(* the digit and date extractors, the cross-URL fallback chain tryUrls,    *)
(* the aggregator combinedPair and the route GET /api/:state/latest.       *)
(*                                                                         *)
(* Text is a sequence of one-character strings, a document is the parsed   *)
(* tree in document order, and every regular expression of the source is   *)
(* an operator that matches the way the JavaScript engine does (leftmost   *)
(* match, greedy quantifiers, backtracking where the pattern needs it).    *)
(***************************************************************************)
EXTENDS Integers, Sequences, FiniteSets, TLC

VARIABLES now, ticks, key, pc, jobs, web, resp, probe

vars == <<now, ticks, key, pc, jobs, web, resp, probe>>

(***************************************************************************)
(* Characters and the character classes of the regular expressions.        *)
(***************************************************************************)
UpperChars == <<"A","B","C","D","E","F","G","H","I","J","K","L","M",
                "N","O","P","Q","R","S","T","U","V","W","X","Y","Z">>

LowerChars == <<"a","b","c","d","e","f","g","h","i","j","k","l","m",
                "n","o","p","q","r","s","t","u","v","w","x","y","z">>

DigitChars == <<"0","1","2","3","4","5","6","7","8","9">>

Range(s) == {s[i] : i \in 1..Len(s)}

\* \d
IsDigit(c) == c \in Range(DigitChars)

\* \s (the documents of the model hold no other white space than the blank)
IsSpace(c) == c = " "

\* \w, the class \b is defined by
IsWord(c) == c \in Range(UpperChars) \cup Range(LowerChars) \cup Range(DigitChars) \cup {"_"}

\* String.prototype.toLowerCase, one character
LowerChar(c) ==
  IF c \in Range(UpperChars)
    THEN LowerChars[CHOOSE i \in 1..Len(UpperChars) : UpperChars[i] = c]
    ELSE c

\* String.prototype.toLowerCase
toLowerCase(t) == [i \in 1..Len(t) |-> LowerChar(t[i])]

\* the value of one decimal digit character
DigitVal(c) == (CHOOSE i \in 1..Len(DigitChars) : DigitChars[i] = c) - 1

\* parseInt(s, 10) of a string of decimal digits
RECURSIVE parseInt(_)
parseInt(s) ==
  IF Len(s) = 0 THEN 0
  ELSE 10 * parseInt(SubSeq(s, 1, Len(s) - 1)) + DigitVal(s[Len(s)])

\* the character at position i, or the end-of-input marker
At(t, i) == IF i >= 1 /\ i <= Len(t) THEN t[i] ELSE "<eof>"

\* \b at the gap before position i
WordBoundary(t, i) == IsWord(At(t, i - 1)) # IsWord(At(t, i))

\* the literal lit (in lower case) stands at position i, letter case ignored
LitAtCI(t, i, lit) ==
  /\ i >= 1
  /\ i + Len(lit) - 1 <= Len(t)
  /\ \A k \in 1..Len(lit) : LowerChar(t[i + k - 1]) = lit[k]

\* String.prototype.includes, and an unanchored literal under the i flag
Includes(t, lit) == \E i \in 1..(Len(t) + 1) : LitAtCI(t, i, lit)

\* the least number of a set of numbers
Least(S) == CHOOSE x \in S : \A y \in S : x <= y

\* the first position at or after i whose character is not in the class S
\* (where a greedy [S]* that starts at i ends)
SkipIn(t, i, S) ==
  LET stops == {j \in i..Len(t) : t[j] \notin S}
  IN IF i > Len(t) THEN i ELSE IF stops = {} THEN Len(t) + 1 ELSE Least(stops)

\* the first position at or after i whose character is in the class S
\* (where a greedy [^S]* that starts at i ends)
SkipNotIn(t, i, S) ==
  LET stops == {j \in i..Len(t) : t[j] \in S}
  IN IF i > Len(t) THEN i ELSE IF stops = {} THEN Len(t) + 1 ELSE Least(stops)

\* String.prototype.trim
trim(t) ==
  LET inked == {i \in 1..Len(t) : ~IsSpace(t[i])}
  IN IF inked = {} THEN <<>>
     ELSE SubSeq(t, Least(inked), CHOOSE x \in inked : \A y \in inked : x >= y)

\* .replace(/\s+/g, ' '): every run of white space becomes one blank
CollapseSpaces(t) ==
  LET starts(i) == ~IsSpace(t[i]) \/ i = 1 \/ ~IsSpace(t[i - 1])
      kept      == SelectSeq([i \in 1..Len(t) |-> i], starts)
  IN [k \in 1..Len(kept) |-> IF IsSpace(t[kept[k]]) THEN " " ELSE t[kept[k]]]

\* .replace(re, ' ') for a global re, from position i on: ends[j] is the
\* position after the match of re that starts at j, 0 if there is none
RECURSIVE ReplaceAll(_, _, _)
ReplaceAll(t, ends, i) ==
  LET hits == {j \in i..Len(t) : ends[j] > 0}
  IN IF hits = {} THEN SubSeq(t, i, Len(t))
     ELSE SubSeq(t, i, Least(hits) - 1) \o <<" ">> \o ReplaceAll(t, ends, ends[Least(hits)])

\* .replace(/\D+/g, '')
StripNonDigits(t) == SelectSeq(t, IsDigit)

(***************************************************************************)
(* cleanTextBlocks: the three global replacements, each a left-to-right     *)
(* scan that writes one blank for every match.                             *)
(***************************************************************************)
DigitSet == Range(DigitChars)

\* /\$[0-9][0-9,.]*/ at position i: the position after the match, 0 if none
MoneyEnd(t, i) ==
  IF At(t, i) = "$" /\ IsDigit(At(t, i + 1))
    THEN SkipIn(t, i + 2, DigitSet \cup {",", "."})
    ELSE 0

\* t.replace(/\$[0-9][0-9,.]*/g, ' ')
StripMoney(t) == ReplaceAll(t, [i \in 1..Len(t) |-> MoneyEnd(t, i)], 1)

\* [ap]m under the i flag at position j
AmPmAt(t, j) == LowerChar(At(t, j)) \in {"a", "p"} /\ LowerChar(At(t, j + 1)) = "m"

\* /\b\d{1,2}:\d{2}(\s?[ap]m)?\b/i at position i: the position after the
\* match, 0 if none. The optional group is tried first, then the match
\* without it.
TimeEnd(t, i) ==
  LET k == IF IsDigit(At(t, i)) /\ IsDigit(At(t, i + 1)) /\ At(t, i + 2) = ":" THEN i + 3
           ELSE IF IsDigit(At(t, i)) /\ At(t, i + 1) = ":" THEN i + 2
           ELSE 0
      e == k + 2
      a == IF IsSpace(At(t, e)) /\ AmPmAt(t, e + 1) THEN e + 3
           ELSE IF AmPmAt(t, e) THEN e + 2
           ELSE 0
  IN IF ~WordBoundary(t, i) \/ k = 0 \/ ~IsDigit(At(t, k)) \/ ~IsDigit(At(t, k + 1)) THEN 0
     ELSE IF a > 0 /\ WordBoundary(t, a) THEN a
     ELSE IF WordBoundary(t, e) THEN e
     ELSE 0

\* t.replace(/\b\d{1,2}:\d{2}(\s?[ap]m)?\b/gi, ' ')
StripTimes(t) == ReplaceAll(t, [i \in 1..Len(t) |-> TimeEnd(t, i)], 1)

\* prize|top prize|payout|how to|odds|draws? at
PhraseWords ==
  {<<"p","r","i","z","e">>,
   <<"t","o","p"," ","p","r","i","z","e">>,
   <<"p","a","y","o","u","t">>,
   <<"h","o","w"," ","t","o">>,
   <<"o","d","d","s">>,
   <<"d","r","a","w","s"," ","a","t">>,
   <<"d","r","a","w"," ","a","t">>}

\* /\b(prize|top prize|payout|how to|odds|draws? at)\b[^.!?\n]*/i at position
\* i: the position after the match, 0 if none
PhraseEnd(t, i) ==
  LET hits == {w \in PhraseWords : LitAtCI(t, i, w) /\ WordBoundary(t, i + Len(w))}
  IN IF WordBoundary(t, i) /\ hits # {}
       THEN SkipNotIn(t, i + Len(CHOOSE w \in hits : TRUE), {".", "!", "?", "\n"})
       ELSE 0

\* t.replace(/\b(prize|top prize|payout|how to|odds|draws? at)\b[^.!?\n]*/gi, ' ')
StripPhrases(t) == ReplaceAll(t, [i \in 1..Len(t) |-> PhraseEnd(t, i)], 1)

cleanTextBlocks(txt) == StripPhrases(StripTimes(StripMoney(CollapseSpaces(txt))))

(***************************************************************************)
(* The calendar: a date is [y, m, d]; NoDate is the absent date (null).    *)
(***************************************************************************)
NoDate == [y |-> 0, m |-> 0, d |-> 0]

IsLeap(y) == (y % 4 = 0 /\ y % 100 # 0) \/ y % 400 = 0

DaysInMonth(y, m) ==
  IF m = 2 THEN (IF IsLeap(y) THEN 29 ELSE 28)
  ELSE IF m \in {4, 6, 9, 11} THEN 30
  ELSE 31

\* Date.UTC's carry of a day count that is not a day of month m of year y
RECURSIVE CarryDays(_, _, _)
CarryDays(y, m, d) ==
  IF d < 1
    THEN LET pm == IF m = 1 THEN 12 ELSE m - 1
             py == IF m = 1 THEN y - 1 ELSE y
         IN CarryDays(py, pm, d + DaysInMonth(py, pm))
  ELSE IF d > DaysInMonth(y, m)
    THEN CarryDays(IF m = 12 THEN y + 1 ELSE y, IF m = 12 THEN 1 ELSE m + 1,
                   d - DaysInMonth(y, m))
  ELSE [y |-> y, m |-> m, d |-> d]

\* dayjs.tz(`${Y}-${MM}-${DD}`, 'America/New_York') for a year of four
\* digits: the fields go through Date.UTC(Y, M - 1, D), which carries a month
\* or a day that is out of range into the next (or previous) month or year.
DayjsTz(Y, M, D) ==
  LET tot == Y * 12 + (M - 1)
  IN CarryDays(tot \div 12, (tot % 12) + 1, D)

\* the decimal digits of k, at least w of them (String(k).padStart(w, '0'))
RECURSIVE padStart(_, _)
padStart(k, w) ==
  IF k < 10 /\ w <= 1 THEN <<DigitChars[k + 1]>>
  ELSE padStart(k \div 10, w - 1) \o <<DigitChars[(k % 10) + 1]>>

\* .format('YYYY-MM-DD')
FormatISO(dt) == padStart(dt.y, 4) \o <<"-">> \o padStart(dt.m, 2) \o <<"-">> \o padStart(dt.d, 2)

\* a.valueOf() >= b.valueOf() for two dates of the reference timezone
DateGeq(a, b) ==
  \/ a.y > b.y
  \/ a.y = b.y /\ a.m > b.m
  \/ a.y = b.y /\ a.m = b.m /\ a.d >= b.d

(***************************************************************************)
(* parseDateFromText                                                       *)
(***************************************************************************)
\* today|tonight|this (?:evening|afternoon|morning)
RelativeWords ==
  {<<"t","o","d","a","y">>,
   <<"t","o","n","i","g","h","t">>,
   <<"t","h","i","s"," ","e","v","e","n","i","n","g">>,
   <<"t","h","i","s"," ","a","f","t","e","r","n","o","o","n">>,
   <<"t","h","i","s"," ","m","o","r","n","i","n","g">>}

\* /\b(today|tonight|this (?:evening|afternoon|morning))\b/i.test(t)
HasRelativePhrase(t) ==
  \E i \in 1..Len(t) : \E w \in RelativeWords :
    WordBoundary(t, i) /\ LitAtCI(t, i, w) /\ WordBoundary(t, i + Len(w))

\* monthNames, line 291
monthNames == <<<<"j","a","n">>, <<"f","e","b">>, <<"m","a","r">>, <<"a","p","r">>, <<"m","a","y">>, <<"j","u","n">>, <<"j","u","l">>, <<"a","u","g">>, <<"s","e","p">>, <<"o","c","t">>, <<"n","o","v">>, <<"d","e","c">>>>

\* Jan(?:uary)?|Feb(?:ruary)?|...|Dec(?:ember)?, the spellings of each month
MonthForms ==
  <<{<<"j","a","n">>, <<"j","a","n","u","a","r","y">>},
   {<<"f","e","b">>, <<"f","e","b","r","u","a","r","y">>},
   {<<"m","a","r">>, <<"m","a","r","c","h">>},
   {<<"a","p","r">>, <<"a","p","r","i","l">>},
   {<<"m","a","y">>},
   {<<"j","u","n">>, <<"j","u","n","e">>},
   {<<"j","u","l">>, <<"j","u","l","y">>},
   {<<"a","u","g">>, <<"a","u","g","u","s","t">>},
   {<<"s","e","p">>, <<"s","e","p","t">>, <<"s","e","p","t","e","m","b","e","r">>},
   {<<"o","c","t">>, <<"o","c","t","o","b","e","r">>},
   {<<"n","o","v">>, <<"n","o","v","e","m","b","e","r">>},
   {<<"d","e","c">>, <<"d","e","c","e","m","b","e","r">>}>>

\* the spellings of the month-name alternation that stand at position i and
\* are followed by \s+ and a digit, as <<month index, position of the digit>>
MonthHits(t, i) ==
  {<<M, SkipIn(t, i + Len(f), {" "})>> : <<M, f>> \in
     {<<M, f>> \in UNION {{<<k, g>> : g \in MonthForms[k]} : k \in 1..12} :
        /\ LitAtCI(t, i, f)
        /\ IsSpace(At(t, i + Len(f)))
        /\ IsDigit(At(t, SkipIn(t, i + Len(f), {" "})))}}

\* where the month-name pattern (m1) first matches, 0 if nowhere
MonthNameStart(t) ==
  LET S == {i \in 1..Len(t) : WordBoundary(t, i) /\ MonthHits(t, i) # {}}
  IN IF S = {} THEN 0 ELSE CHOOSE i \in S : \A j \in S : i <= j

\* m1[1] run through monthNames.findIndex(x => m1[1].toLowerCase().startsWith(x)) + 1
MonthIndex(name) ==
  LET S == {k \in 1..12 : LitAtCI(name, 1, monthNames[k])}
  IN IF S = {} THEN 0 ELSE CHOOSE k \in S : \A j \in S : k <= j

\* the four digits of (?:,\s*(\d{4}))? at position p (after the day), <<>> if
\* the group does not match
MonthNameYear(t, p) ==
  LET ys == SkipIn(t, p + 1, {" "})
  IN IF At(t, p) = "," /\ \A k \in 0..3 : IsDigit(At(t, ys + k))
       THEN SubSeq(t, ys, ys + 3)
       ELSE <<>>

\* /\b(\d{1,2})\/(\d{1,2})(?:\/(\d{2,4}))?\b/ at position i: the month, the
\* day and the year captured (<<>> for no year), or <<>> if no match at i
YearLen(t, ys) ==
  IF (\A k \in 0..3 : IsDigit(At(t, ys + k))) /\ WordBoundary(t, ys + 4) THEN 4
  ELSE IF (\A k \in 0..2 : IsDigit(At(t, ys + k))) /\ WordBoundary(t, ys + 3) THEN 3
  ELSE IF (\A k \in 0..1 : IsDigit(At(t, ys + k))) /\ WordBoundary(t, ys + 2) THEN 2
  ELSE 0

NumericAt(t, i) ==
  LET ml == IF IsDigit(At(t, i)) /\ IsDigit(At(t, i + 1)) /\ At(t, i + 2) = "/" THEN 2
            ELSE IF IsDigit(At(t, i)) /\ At(t, i + 1) = "/" THEN 1
            ELSE 0
      ds == i + ml + 1
      dl == IF IsDigit(At(t, ds + 1)) THEN 2 ELSE 1
      e  == ds + dl
      yl == IF At(t, e) = "/" THEN YearLen(t, e + 1) ELSE 0
  IN IF ~WordBoundary(t, i) \/ ml = 0 \/ ~IsDigit(At(t, ds)) THEN <<>>
     ELSE IF yl > 0
       THEN <<SubSeq(t, i, i + ml - 1), SubSeq(t, ds, e - 1), SubSeq(t, e + 1, e + yl)>>
     ELSE IF WordBoundary(t, e)
       THEN <<SubSeq(t, i, i + ml - 1), SubSeq(t, ds, e - 1), <<>> >>
     ELSE <<>>

\* where the numeric pattern (m2) first matches, 0 if nowhere
NumericStart(t) ==
  LET S == {i \in 1..Len(t) : NumericAt(t, i) # <<>>}
  IN IF S = {} THEN 0 ELSE CHOOSE i \in S : \A j \in S : i <= j

\* m[3] ? parseInt(m[3], 10) : y, for the year group of a match
YearOr(group, y) == IF group # <<>> THEN parseInt(group) ELSE y

\* lines 290-295: the date of the month-name match at position i1, whose
\* day starts at position ds
MonthNameDate(t, i1, ds, y) ==
  LET dl == IF IsDigit(At(t, ds + 1)) THEN 2 ELSE 1
  IN DayjsTz(YearOr(MonthNameYear(t, ds + dl), y),
             MonthIndex(SubSeq(t, i1, Len(t))),
             parseInt(SubSeq(t, ds, ds + dl - 1)))

\* a numeric date whose two-digit year is read in the century before
NumericDate1900(m2, y) ==
  LET Y == YearOr(m2[3], y)
  IN DayjsTz(IF Y < 100 THEN 1900 + Y ELSE Y, parseInt(m2[1]), parseInt(m2[2]))

\* lines 301-304: the date of the numeric match m2
NumericDate(m2, y) ==
  LET Y == YearOr(m2[3], y)
  IN DayjsTz(IF Y < 100 THEN 2000 + Y ELSE Y, parseInt(m2[1]), parseInt(m2[2]))

\* the date of whichever of the two forms stands first in the text
MatchedDateEarliest(t, i1, i2, y) ==
  IF i1 > 0 /\ (i2 = 0 \/ i1 < i2)
    THEN MonthNameDate(t, i1, (CHOOSE h \in MonthHits(t, i1) : TRUE)[2], y)
  ELSE IF i2 > 0 THEN NumericDate(NumericAt(t, i2), y)
  ELSE NoDate

\* lines 288-306 for m1 found at i1 and m2 found at i2 (0 for no match)
MatchedDate(t, i1, i2, y) ==
  IF i1 > 0 THEN MonthNameDate(t, i1, (CHOOSE h \in MonthHits(t, i1) : TRUE)[2], y)
  ELSE IF i2 > 0 THEN NumericDate(NumericAt(t, i2), y)
  ELSE NoDate

\* a resolver that gives the current date to a text without a date
DateInTextOrToday(t, today) ==
  IF HasRelativePhrase(t) \/ (MonthNameStart(t) = 0 /\ NumericStart(t) = 0) THEN today
  ELSE MatchedDate(t, MonthNameStart(t), NumericStart(t), today.y)

\* lines 284-306 on the text t with its white space collapsed
DateInText(t, today) ==
  IF HasRelativePhrase(t) THEN today
  ELSE MatchedDate(t, MonthNameStart(t), NumericStart(t), today.y)

\* parseDateFromText(text) at the clock reading today (the date of Date.now()
\* in America/New_York)
parseDateFromText(text, today) == DateInText(CollapseSpaces(text), today)

\* a || b for two parse results
OrDate(a, b) == IF a # NoDate THEN a ELSE b

(***************************************************************************)
(* The parsed document (cheerio.load): its nodes in document order, each   *)
(* [d, tag, cls, txt] with d the depth below the document root, tag        *)
(* "#text" for a text node and txt its characters.  Node 0 is the          *)
(* document root, $.root().                                                *)
(***************************************************************************)
Depth(doc, i) == IF i = 0 THEN 0 - 1 ELSE doc[i].d

IsElement(doc, i) == i >= 1 /\ i <= Len(doc) /\ doc[i].tag # "#text"

\* the last node of the subtree of node i
SubtreeEnd(doc, i) ==
  LET S == {j \in (i + 1)..Len(doc) : Depth(doc, j) <= Depth(doc, i)}
  IN IF S = {} THEN Len(doc) ELSE (CHOOSE j \in S : \A k \in S : j <= k) - 1

\* the concatenation of the text nodes number i..e
RECURSIVE TextRange(_, _, _)
TextRange(doc, i, e) ==
  IF i > e THEN <<>>
  ELSE IF i = e THEN (IF doc[i].tag = "#text" THEN doc[i].txt ELSE <<>>)
  ELSE TextRange(doc, i, (i + e) \div 2) \o TextRange(doc, ((i + e) \div 2) + 1, e)

\* $(el).text()
Text(doc, i) == TextRange(doc, IF i = 0 THEN 1 ELSE i, SubtreeEnd(doc, i))

\* a selector is a set of tag names and a set of class names; "*" is every tag
Matches(doc, i, sel) ==
  /\ IsElement(doc, i)
  /\ \/ "*" \in sel.tags
     \/ doc[i].tag \in sel.tags
     \/ doc[i].cls \in sel.classes

Tags(S) == [tags |-> S, classes |-> {}]

\* $(el).find(sel).toArray(): the matching descendants, in document order
Find(doc, i, sel) ==
  LET hit(k) == Matches(doc, k, sel)
  IN SelectSeq([k \in 1..(SubtreeEnd(doc, i) - i) |-> i + k], hit)

\* $el.next(): the next sibling element, 0 if there is none
NextSibling(doc, i) ==
  LET S == {j \in (SubtreeEnd(doc, i) + 1)..Len(doc) :
              /\ IsElement(doc, j)
              /\ Depth(doc, j) = Depth(doc, i)
              /\ \A k \in (i + 1)..j : Depth(doc, k) >= Depth(doc, i)}
  IN IF i = 0 \/ S = {} THEN 0 ELSE CHOOSE j \in S : \A k \in S : j <= k

\* the first element of a selection, 0 for the empty selection
First(s) == IF Len(s) = 0 THEN 0 ELSE s[1]

(***************************************************************************)
(* The digit extractors.  Null is the absent digit string (null).          *)
(***************************************************************************)
Null == <<"null">>

\* a JavaScript string or null used as a condition
Truthy(s) == s # Null /\ s # <<>>

\* a || b for two strings or nulls
OrElse(a, b) == IF Truthy(a) THEN a ELSE b

\* t && /^[0-9]$/.test(t) ? t : null, for one element's trimmed text
SingleDigit(t) == IF Len(t) = 1 /\ IsDigit(t[1]) THEN t[1] ELSE "null"

\* a picker that joins the whole run of single-digit elements it meets first
FirstRunWhole(nodes, n) ==
  LET runs == {i \in 1..(Len(nodes) - n + 1) : \A k \in i..(i + n - 1) : nodes[k] # "null"}
      i0   == Least(runs)
      last == CHOOSE e \in i0..Len(nodes) :
                /\ \A k \in i0..e : nodes[k] # "null"
                /\ e = Len(nodes) \/ nodes[e + 1] = "null"
  IN IF runs = {} THEN Null ELSE SubSeq(nodes, i0, last)

\* the loop of lines 325-328: the first slice of n elements that are all
\* single digits, joined; null if there is none
FirstRun(nodes, n) ==
  LET runs == {i \in 1..(Len(nodes) - n + 1) : \A k \in i..(i + n - 1) : nodes[k] # "null"}
  IN IF runs = {} THEN Null ELSE SubSeq(nodes, Least(runs), Least(runs) + n - 1)

pickConsecutiveSingleDigitNodes(doc, container, n) ==
  LET els   == Find(doc, container, Tags({"span", "div", "li", "p"}))
      nodes == [k \in 1..Len(els) |-> SingleDigit(trim(Text(doc, els[k])))]
  IN FirstRun(nodes, n)

\* the position of the k-th digit of t (there is one)
DigitPos(t, k) ==
  LET digit(j) == IsDigit(t[j])
  IN SelectSeq([j \in 1..Len(t) |-> j], digit)[k]

\* txt.match(/(?:\d\D*){n}/): the matched text, Null if there is no match
MatchSpan(txt, n) ==
  IF Len(StripNonDigits(txt)) < n THEN Null
  ELSE LET s == DigitPos(txt, 1)
           e == SkipNotIn(txt, DigitPos(txt, n) + 1, DigitSet)
       IN SubSeq(txt, s, e - 1)

\* txt.match(/\d{n}/): the matched text, Null if there is no match
MatchTight(txt, n) ==
  LET S == {i \in 1..Len(txt) : \A k \in 0..(n - 1) : IsDigit(At(txt, i + k))}
  IN IF S = {} THEN Null
     ELSE LET i == CHOOSE i \in S : \A j \in S : i <= j IN SubSeq(txt, i, i + n - 1)

\* lines 335-341 on the cleaned text txt
DigitsInClean(txt, n) ==
  LET mSpan == MatchSpan(txt, n)
      d     == IF mSpan = Null THEN Null
               ELSE LET s == StripNonDigits(mSpan)
                    IN SubSeq(s, 1, IF Len(s) < n THEN Len(s) ELSE n)
  IN IF mSpan # Null /\ Len(d) = n THEN d ELSE MatchTight(txt, n)

\* the body of pickNDigitsFromTextSafe on a container's text
pickNDigitsFromText(text, n) == DigitsInClean(cleanTextBlocks(text), n)

pickNDigitsFromTextSafe(doc, container, n) ==
  pickNDigitsFromText(Text(doc, container), n)

\* new RegExp(`\\d[^\\d]*`.repeat(n)).test(text)
HasNDigits(text, n) == Len(StripNonDigits(text)) >= n

(***************************************************************************)
(* Labels.                                                                 *)
(***************************************************************************)
\* CT_LABEL_RE: the alternatives of each label's pattern, none anchored
CT_LABEL_RE ==
  [Day     |-> {<<"d","a","y">>, <<"d","a","y","t","i","m","e">>},
   Night   |-> {<<"n","i","g","h","t">>},
   Midday  |-> {<<"m","i","d","d","a","y">>, <<"d","a","y">>, <<"d","a","y","t","i","m","e">>},
   Evening |-> {<<"e","v","e","n","i","n","g">>, <<"n","i","g","h","t">>}]

\* CT_LABEL_RE[label].test(text)
LabelTest(label, text) == \E a \in CT_LABEL_RE[label] : Includes(text, a)

\* NEXT_LABEL_RE = /\b(day|night|midday|evening)\b/i, .test(text)
NEXT_LABEL_RE(text) ==
  \E i \in 1..Len(text) : \E w \in {<<"d","a","y">>, <<"n","i","g","h","t">>, <<"m","i","d","d","a","y">>, <<"e","v","e","n","i","n","g">>} :
    WordBoundary(text, i) /\ LitAtCI(text, i, w) /\ WordBoundary(text, i + Len(w))

(***************************************************************************)
(* The three extractors of one document.  A result is [digits, date];      *)
(* Absent is {digits: null, date: null}.                                   *)
(***************************************************************************)
Absent == [digits |-> Null, date |-> NoDate]

\* scopes, line 234
scopes ==
  <<Tags({"main"}), Tags({"article"}), Tags({"section"}),
    [tags |-> {}, classes |-> {"results"}],
    Tags({"table"}), Tags({"ul"}), Tags({"ol"})>>

\* bySpans || byText (d1 || d2): the digits of one container, the structural
\* strategy first
DigitsIn(doc, container, n) ==
  OrElse(pickConsecutiveSingleDigitNodes(doc, container, n),
         pickNDigitsFromTextSafe(doc, container, n))

\* parseDateFromText(a.text()) || parseDateFromText(b.text()) || ... || null
\* for the elements els
RECURSIVE FirstDate(_, _, _)
FirstDate(doc, els, today) ==
  IF Len(els) = 0 THEN NoDate
  ELSE OrDate(parseDateFromText(Text(doc, Head(els)), today),
              FirstDate(doc, Tail(els), today))

\* the loop of extractFirstInLatest from scope number k on, then the whole
\* document
RECURSIVE FirstInScopes(_, _, _)
FirstInScopes(doc, n, k) ==
  IF k > Len(scopes) THEN DigitsIn(doc, 0, n)
  ELSE LET blk == First(Find(doc, 0, scopes[k]))
           d   == DigitsIn(doc, blk, n)
       IN IF blk # 0 /\ Truthy(d) THEN d ELSE FirstInScopes(doc, n, k + 1)

extractFirstInLatest(doc, n) == FirstInScopes(doc, n, 1)

\* rowSel, line 260
rowSel ==
  [tags    |-> {"tr", "li", "section", "article", "div"},
   classes |-> {"row", "result", "draw", "results-row", "c-results-card"}]

\* d ? { digits: d, date } : { digits: null, date: null }
Dated(d, date) == IF Truthy(d) THEN [digits |-> d, date |-> date] ELSE Absent

extractRowByLabel(doc, label, n, today) ==
  LET ok(el) == LabelTest(label, Text(doc, el)) /\ HasNDigits(Text(doc, el), n)
      rows   == Range(SelectSeq(Find(doc, 0, rowSel), ok))
      size(el) == Len(Text(doc, el))
      best   == CHOOSE b \in rows : \A c \in rows :
                  size(b) < size(c) \/ (size(b) = size(c) /\ b <= c)
  IN IF rows = {} THEN Absent
     ELSE Dated(DigitsIn(doc, best, n), FirstDate(doc, <<best, 0>>, today))

\* the bound of the sibling walk, line 379
WalkMaxSteps == 40

\* the bound of the candidate list, line 392
MaxCandidates == 80

\* the heading test of the scope filter, lines 361-362
IsLatestSection(doc, el) ==
  LET hd == First(Find(doc, el, Tags({"h1", "h2", "h3"})))
      h  == IF hd = 0 THEN <<>> ELSE toLowerCase(trim(Text(doc, hd)))
  IN Includes(h, <<"l","a","t","e","s","t">>) /\ Includes(h, <<"n","u","m","b","e","r">>)

\* step 1 of extractByLabel: the "Latest numbers" section, else the root
LatestSection(doc) ==
  LET isLatest(el) == IsLatestSection(doc, el)
  IN First(SelectSeq(Find(doc, 0, Tags({"section"})), isLatest))

\* step 2 of extractByLabel: the first element of the scope whose text
\* matches the label, 0 if none
LabelElement(doc, section, label) ==
  LET hit(el) == LabelTest(label, toLowerCase(trim(Text(doc, el))))
  IN First(SelectSeq(Find(doc, section, Tags({"*"})), hit))

\* step 3 of extractByLabel: the candidates gathered from the siblings that
\* follow the walker
RECURSIVE Walk(_, _, _, _, _)
Walk(doc, label, walker, steps, candidates) ==
  LET next == NextSibling(doc, walker)
      text == Text(doc, next)
      more == candidates \o <<next>> \o Find(doc, next, Tags({"li", "div", "p", "span"}))
  IN IF steps >= WalkMaxSteps \/ next = 0 THEN candidates
     ELSE IF steps > 0 /\ NEXT_LABEL_RE(text) /\ ~LabelTest(label, text) THEN candidates
     ELSE IF Len(more) > MaxCandidates THEN more
     ELSE Walk(doc, label, next, steps + 1, more)

\* step 4 of extractByLabel: the number of the first candidate that yields
\* digits; 0 if none does
FirstWithDigits(doc, n, candidates) ==
  LET hits == {k \in 1..Len(candidates) : Truthy(DigitsIn(doc, candidates[k], n))}
  IN IF hits = {} THEN 0 ELSE Least(hits)

\* the return of step 4 for the candidate found, of step 5 if none was
FromCandidates(doc, labelEl, n, today, candidates) ==
  LET k == FirstWithDigits(doc, n, candidates)
  IN IF k > 0
       THEN [digits |-> DigitsIn(doc, candidates[k], n),
             date   |-> FirstDate(doc, <<candidates[k], labelEl, 0>>, today)]
       ELSE [digits |-> DigitsIn(doc, labelEl, n),
             date   |-> FirstDate(doc, <<labelEl, 0>>, today)]

\* steps 3 to 5 of extractByLabel for the label element found in step 2
AroundLabel(doc, label, labelEl, n, today) ==
  IF labelEl = 0 THEN Absent
  ELSE FromCandidates(doc, labelEl, n, today, Walk(doc, label, labelEl, 0, <<>>))

extractByLabel(doc, label, n, today) ==
  AroundLabel(doc, label, LabelElement(doc, LatestSection(doc), label), n, today)

(***************************************************************************)
(* Building documents: the pieces of markup the pages are made of.         *)
(***************************************************************************)
\* <tag> at depth d
El(d, tag) == [d |-> d, tag |-> tag, cls |-> "", txt |-> <<>>]

\* <tag class="cls"> at depth d
ElC(d, tag, cls) == [d |-> d, tag |-> tag, cls |-> cls, txt |-> <<>>]

\* a text node at depth d
Tx(d, txt) == [d |-> d, tag |-> "#text", cls |-> "", txt |-> txt]

\* <tag>txt</tag> at depth d
Leaf(d, tag, txt) == <<El(d, tag), Tx(d + 1, txt)>>

\* <tag>c</tag> for every character c of digits, at depth d
RECURSIVE DigitLeaves(_, _, _)
DigitLeaves(d, tag, digits) ==
  IF Len(digits) = 0 THEN <<>>
  ELSE Leaf(d, tag, <<Head(digits)>>) \o DigitLeaves(d, tag, Tail(digits))

\* <outer><inner>c</inner></outer> for every character c of digits
RECURSIVE WrappedDigitLeaves(_, _, _, _)
WrappedDigitLeaves(d, outer, inner, digits) ==
  IF Len(digits) = 0 THEN <<>>
  ELSE <<El(d, outer)>> \o Leaf(d + 1, inner, <<Head(digits)>>)
       \o WrappedDigitLeaves(d, outer, inner, Tail(digits))

\* <html><body> body </body></html>; body starts at depth 2
Page(body) == <<El(0, "html"), El(1, "body")>> \o body

(***************************************************************************)
(* The configuration table and the tests tryUrls makes on a URL.           *)
(***************************************************************************)
\* https://www.lotteryusa.com, the origin of every URL of the table
Site == <<"h","t","t","p","s",":","/","/","w","w","w",".","l","o","t","t","e","r","y","u","s","a",".","c","o","m">>

\* U, lines 466-606
U ==
  [ ny |-> [p3 |-> [mid |-> [urls  |-> <<Site \o <<"/","n","e","w","-","y","o","r","k","/","m","i","d","d","a","y","-","n","u","m","b","e","r","s","/">>,
                            Site \o <<"/","n","e","w","-","y","o","r","k","/","n","u","m","b","e","r","s","/">>>>,
                  label |-> "Midday"],
          eve |-> [urls  |-> <<Site \o <<"/","n","e","w","-","y","o","r","k","/","n","u","m","b","e","r","s","/">>>>,
                  label |-> "Evening"]],
      p4 |-> [mid |-> [urls  |-> <<Site \o <<"/","n","e","w","-","y","o","r","k","/","m","i","d","d","a","y","-","w","i","n","-","4","/">>,
                            Site \o <<"/","n","e","w","-","y","o","r","k","/","w","i","n","-","4","/">>>>,
                  label |-> "Midday"],
          eve |-> [urls  |-> <<Site \o <<"/","n","e","w","-","y","o","r","k","/","w","i","n","-","4","/">>>>,
                  label |-> "Evening"]]],
   nj |-> [p3 |-> [mid |-> [urls  |-> <<Site \o <<"/","n","e","w","-","j","e","r","s","e","y","/","m","i","d","d","a","y","-","p","i","c","k","-","3","/">>,
                            Site \o <<"/","n","e","w","-","j","e","r","s","e","y","/","m","i","d","d","a","y","-","n","u","m","b","e","r","s","/">>,
                            Site \o <<"/","n","e","w","-","j","e","r","s","e","y","/","p","i","c","k","-","3","/">>>>,
                  label |-> "Midday"],
          eve |-> [urls  |-> <<Site \o <<"/","n","e","w","-","j","e","r","s","e","y","/","p","i","c","k","-","3","/">>,
                            Site \o <<"/","n","e","w","-","j","e","r","s","e","y","/","n","u","m","b","e","r","s","/">>>>,
                  label |-> "Evening"]],
      p4 |-> [mid |-> [urls  |-> <<Site \o <<"/","n","e","w","-","j","e","r","s","e","y","/","m","i","d","d","a","y","-","p","i","c","k","-","4","/">>,
                            Site \o <<"/","n","e","w","-","j","e","r","s","e","y","/","m","i","d","d","a","y","-","w","i","n","-","4","/">>,
                            Site \o <<"/","n","e","w","-","j","e","r","s","e","y","/","p","i","c","k","-","4","/">>>>,
                  label |-> "Midday"],
          eve |-> [urls  |-> <<Site \o <<"/","n","e","w","-","j","e","r","s","e","y","/","p","i","c","k","-","4","/">>,
                            Site \o <<"/","n","e","w","-","j","e","r","s","e","y","/","w","i","n","-","4","/">>>>,
                  label |-> "Evening"]]],
   ct |-> [p3 |-> [mid |-> [urls  |-> <<Site \o <<"/","c","o","n","n","e","c","t","i","c","u","t","/","m","i","d","d","a","y","-","3","/">>,
                            Site \o <<"/","c","o","n","n","e","c","t","i","c","u","t","/","p","l","a","y","-","3","/">>>>,
                  label |-> "Midday"],
          eve |-> [urls  |-> <<Site \o <<"/","c","o","n","n","e","c","t","i","c","u","t","/","p","l","a","y","-","3","/">>>>,
                  label |-> "Night"]],
      p4 |-> [mid |-> [urls  |-> <<Site \o <<"/","c","o","n","n","e","c","t","i","c","u","t","/","m","i","d","d","a","y","-","4","/">>,
                            Site \o <<"/","c","o","n","n","e","c","t","i","c","u","t","/","p","l","a","y","-","4","/">>>>,
                  label |-> "Midday"],
          eve |-> [urls  |-> <<Site \o <<"/","c","o","n","n","e","c","t","i","c","u","t","/","p","l","a","y","-","4","/">>>>,
                  label |-> "Night"]]],
   fl |-> [p3 |-> [mid |-> [urls  |-> <<Site \o <<"/","f","l","o","r","i","d","a","/","m","i","d","d","a","y","-","p","i","c","k","-","3","/">>,
                            Site \o <<"/","f","l","o","r","i","d","a","/","p","i","c","k","-","3","/">>>>,
                  label |-> "Midday"],
          eve |-> [urls  |-> <<Site \o <<"/","f","l","o","r","i","d","a","/","e","v","e","n","i","n","g","-","p","i","c","k","-","3","/">>,
                            Site \o <<"/","f","l","o","r","i","d","a","/","p","i","c","k","-","3","/">>>>,
                  label |-> "Evening"]],
      p4 |-> [mid |-> [urls  |-> <<Site \o <<"/","f","l","o","r","i","d","a","/","m","i","d","d","a","y","-","p","i","c","k","-","4","/">>,
                            Site \o <<"/","f","l","o","r","i","d","a","/","p","i","c","k","-","4","/">>>>,
                  label |-> "Midday"],
          eve |-> [urls  |-> <<Site \o <<"/","f","l","o","r","i","d","a","/","e","v","e","n","i","n","g","-","p","i","c","k","-","4","/">>,
                            Site \o <<"/","f","l","o","r","i","d","a","/","p","i","c","k","-","4","/">>>>,
                  label |-> "Evening"]]],
   ga |-> [p3 |-> [mid |-> [urls  |-> <<Site \o <<"/","g","e","o","r","g","i","a","/","m","i","d","d","a","y","-","3","/">>,
                            Site \o <<"/","g","e","o","r","g","i","a","/">>>>,
                  label |-> "Midday"],
          eve |-> [urls  |-> <<Site \o <<"/","g","e","o","r","g","i","a","/","c","a","s","h","-","3","-","e","v","e","n","i","n","g","/">>,
                            Site \o <<"/","g","e","o","r","g","i","a","/">>>>,
                  label |-> "Evening"],
          ngt |-> [urls  |-> <<Site \o <<"/","g","e","o","r","g","i","a","/","c","a","s","h","-","3","/">>,
                            Site \o <<"/","g","e","o","r","g","i","a","/">>>>,
                  label |-> "Night"]],
      p4 |-> [mid |-> [urls  |-> <<Site \o <<"/","g","e","o","r","g","i","a","/","m","i","d","d","a","y","-","4","/">>,
                            Site \o <<"/","g","e","o","r","g","i","a","/">>>>,
                  label |-> "Midday"],
          eve |-> [urls  |-> <<Site \o <<"/","g","e","o","r","g","i","a","/","c","a","s","h","-","4","-","e","v","e","n","i","n","g","/">>,
                            Site \o <<"/","g","e","o","r","g","i","a","/">>>>,
                  label |-> "Evening"],
          ngt |-> [urls  |-> <<Site \o <<"/","g","e","o","r","g","i","a","/","c","a","s","h","-","4","/">>,
                            Site \o <<"/","g","e","o","r","g","i","a","/">>>>,
                  label |-> "Night"]]],
   pa |-> [p3 |-> [mid |-> [urls  |-> <<Site \o <<"/","p","e","n","n","s","y","l","v","a","n","i","a","/","m","i","d","d","a","y","-","p","i","c","k","-","3","/">>,
                            Site \o <<"/","p","e","n","n","s","y","l","v","a","n","i","a","/">>>>,
                  label |-> "Day"],
          eve |-> [urls  |-> <<Site \o <<"/","p","e","n","n","s","y","l","v","a","n","i","a","/","p","i","c","k","-","3","/">>,
                            Site \o <<"/","p","e","n","n","s","y","l","v","a","n","i","a","/">>>>,
                  label |-> "Evening"]],
      p4 |-> [mid |-> [urls  |-> <<Site \o <<"/","p","e","n","n","s","y","l","v","a","n","i","a","/","m","i","d","d","a","y","-","p","i","c","k","-","4","/">>,
                            Site \o <<"/","p","e","n","n","s","y","l","v","a","n","i","a","/">>>>,
                  label |-> "Day"],
          eve |-> [urls  |-> <<Site \o <<"/","p","e","n","n","s","y","l","v","a","n","i","a","/","p","i","c","k","-","4","/">>,
                            Site \o <<"/","p","e","n","n","s","y","l","v","a","n","i","a","/">>>>,
                  label |-> "Evening"]]]]

\* /\/connecticut\//i.test(u)
isCT(u) == Includes(u, <<"/","c","o","n","n","e","c","t","i","c","u","t","/">>)

\* /\/connecticut\/(midday|night)-[34]\//i.test(u) ||
\* (label === 'Night' && /\/connecticut\/play-[34]\//i.test(u))
isCtDedicated(u, label) ==
  LET pre == <<"/","c","o","n","n","e","c","t","i","c","u","t","/">>
      draw(w) == \E i \in 1..Len(u) :
        /\ LitAtCI(u, i, pre \o w \o <<"-">>)
        /\ At(u, i + Len(pre) + Len(w) + 1) \in {"3", "4"}
        /\ At(u, i + Len(pre) + Len(w) + 2) = "/"
  IN \/ draw(<<"m","i","d","d","a","y">>)
     \/ draw(<<"n","i","g","h","t">>)
     \/ label = "Night" /\ draw(<<"p","l","a","y">>)

\* /\/georgia\//i.test(u)
isGA(u) == Includes(u, <<"/","g","e","o","r","g","i","a","/">>)

\* /\/georgia\/(midday-[34]|cash-[34](?:-evening)?\/?)$/i.test(u)
isGaDedicated(u) ==
  LET pre  == <<"/","g","e","o","r","g","i","a","/">>
      end  == Len(u) + 1
      slash(p) == IF At(u, p) = "/" THEN {p, p + 1} ELSE {p}
  IN \E i \in 1..Len(u) :
       LET p == i + Len(pre)
       IN /\ LitAtCI(u, i, pre)
          /\ \/ /\ LitAtCI(u, p, <<"m","i","d","d","a","y","-">>)
                /\ At(u, p + 7) \in {"3", "4"}
                /\ p + 8 = end
             \/ /\ LitAtCI(u, p, <<"c","a","s","h","-">>)
                /\ At(u, p + 5) \in {"3", "4"}
                /\ \/ end \in slash(p + 6)
                   \/ LitAtCI(u, p + 6, <<"-","e","v","e","n","i","n","g">>) /\ end \in slash(p + 14)

\* digits = extractFirstInLatest($, n); date = parseDateFromText($.root().text()) || null
FirstInLatest(doc, n, today) ==
  [digits |-> extractFirstInLatest(doc, n), date |-> FirstDate(doc, <<0>>, today)]

\* which branch of lines 440-454 the tests of lines 425-436 select for u
Branch(u, label) ==
  IF isCT(u) /\ isCtDedicated(u, label) THEN "ctDedicated"
  ELSE IF isCT(u) THEN "ctGeneric"
  ELSE IF isGA(u) /\ isGaDedicated(u) THEN "gaDedicated"
  ELSE "generic"

\* the branches of lines 440-454: the digits and the date of document doc
ExtractIn(branch, label, n, doc, today) ==
  IF branch = "ctDedicated" THEN FirstInLatest(doc, n, today)
  ELSE IF branch = "ctGeneric" THEN extractRowByLabel(doc, label, n, today)
  ELSE IF branch = "gaDedicated" THEN FirstInLatest(doc, n, today)
  ELSE extractByLabel(doc, label, n, today)

\* the body of the try block of tryUrls after the fetch (lines 425-454): the
\* digits and the date of document doc, fetched from u for (label, n)
ExtractFrom(u, label, n, doc, today) == ExtractIn(Branch(u, label), label, n, doc, today)

(***************************************************************************)
(* The pages the site can serve, and the ways a request can end.           *)
(***************************************************************************)
\* <span>label</span><div><span>d</span>...<time> date </time></div>: a draw
\* as a label followed by a block of one element per digit and a date line
Draw(d, label, digits, date) ==
  Leaf(d, "span", label) \o <<El(d, "div")>> \o DigitLeaves(d + 1, "span", digits)
  \o (IF date = <<>> THEN <<>> ELSE Leaf(d + 1, "time", <<" ">> \o date \o <<" ">>))

\* <section><h2>Latest numbers</h2> body </section>; body starts at depth 3
Latest(body) ==
  <<El(2, "section")>> \o Leaf(3, "h2", <<"L","a","t","e","s","t"," ","n","u","m","b","e","r","s">>) \o body

\* the documents of the model, by name: what fetchHtml hands to cheerio.load
Docs ==
  [ \* a game's page with its three draws, each with its own date
    rows3   |-> Page(Latest(Draw(3, <<"M","i","d","d","a","y">>, <<"4","1","7">>, <<"S","e","p"," ","1","0",","," ","2","0","2","5">>)
                         \o Draw(3, <<"E","v","e","n","i","n","g">>, <<"0","2","7">>, <<"S","e","p"," ","9",","," ","2","0","2","5">>)
                         \o Draw(3, <<"N","i","g","h","t">>, <<"9","0","5">>, <<"9","/","1","1","/","2","5">>))),
    rows4   |-> Page(Latest(Draw(3, <<"M","i","d","d","a","y">>, <<"4","1","7","0">>, <<"S","e","p"," ","1","2",","," ","2","0","2","5">>)
                         \o Draw(3, <<"E","v","e","n","i","n","g">>, <<"0","2","7","0">>, <<"9","/","8","/","2","5">>)
                         \o Draw(3, <<"N","i","g","h","t">>, <<"9","0","5","1">>, <<>>))),
    \* Pennsylvania's page: the early draw is labelled Day, the dates have no year
    rowsPa  |-> Page(Latest(Draw(3, <<"D","a","y">>, <<"4","1","7","0">>, <<"S","e","p"," ","1","0">>)
                         \o Draw(3, <<"E","v","e","n","i","n","g">>, <<"0","2","7","0">>, <<"9","/","9">>))),
    \* a page of one draw: no label beside the numbers
    draw3   |-> Page(Leaf(2, "h1", <<"P","i","c","k"," ","3"," ","M","i","d","d","a","y">>)
                     \o Latest(<<El(3, "ul")>> \o DigitLeaves(4, "li", <<"4","1","7">>)
                               \o Leaf(3, "p", <<"W","e","d",","," ","S","e","p"," ","1","0",","," ","2","0","2","5">>))),
    draw4   |-> Page(Leaf(2, "h1", <<"P","i","c","k"," ","4">>)
                     \o Latest(<<El(3, "ul")>> \o DigitLeaves(4, "li", <<"0","2","7","0">>)
                               \o Leaf(3, "p", <<"d","r","a","w","n"," ","t","o","n","i","g","h","t">>))),
    \* results as running text
    text3   |-> Page(Latest(Leaf(3, "p", <<"E","v","e","n","i","n","g",":"," ","0"," ","2"," ","7"," ","0"," ","S","e","p"," ","9">>)
                         \o Leaf(3, "p", <<"M","i","d","d","a","y",":"," ","4","-","1","-","7"," ","t","o","d","a","y">>))),
    \* a page with amounts, times and a long number, and no draw
    noisy   |-> Page(Latest(Leaf(3, "p", <<"M","i","d","d","a","y"," ","d","r","a","w","s"," ","a","t"," ","1","2",":","5","9"," ","p","m","."," ","T","o","p"," ","p","r","i","z","e"," ","$","5","0","0",".">>)
                         \o Leaf(3, "p", <<"T","i","c","k","e","t"," ","1","2","3","4","5","6","7","8">>))),
    \* a page without numbers
    empty   |-> Page(Leaf(2, "p", <<"N","o"," ","r","e","s","u","l","t","s"," ","y","e","t">>)),
    \* the label, then one element per digit as its following siblings
    sibling |-> Page(Latest(Leaf(3, "span", <<"M","i","d","d","a","y">>) \o DigitLeaves(3, "span", <<"4","1","7">>))),
    \* the label, then a wrapper holding one element per digit
    wrapper |-> Page(Latest(Leaf(3, "span", <<"M","i","d","d","a","y">>)
                         \o <<El(3, "ul")>> \o DigitLeaves(4, "li", <<"4","1","7">>))) ]


\* how a request ended: err is axios's failure before any response ("none" if
\* a response came), status the response's status, body the name of the
\* document it carried
Timeout == [err |-> "timeout", status |-> 0, body |-> "empty"]

Refused == [err |-> "network", status |-> 0, body |-> "empty"]

Answer(status, body) == [err |-> "none", status |-> status, body |-> body]

Served(body) == Answer(200, body)

\* the requests that end in a rejection of axios.get
Failures == {Timeout, Refused, Answer(404, "empty"), Answer(503, "rows3")}

\* a client that rejects only when no response arrives
ThrowsOnNoResponse(o) == o.err # "none"

\* axios.get rejects on a failure of the request and, by its default
\* validateStatus, on every status outside 200..299
Throws(o) == o.err # "none" \/ o.status \notin 200..299

(***************************************************************************)
(* The clock: Date.now() read in America/New_York, as a calendar date.     *)
(***************************************************************************)
MaxTicks == 1

\* the date of the first reading
Day0 == [y |-> 2025, m |-> 12, d |-> 31]

\* midnight passes
NextDay(date) == CarryDays(date.y, date.m, date.d + 1)

RECURSIVE DayAfter(_)
DayAfter(k) == IF k = 0 THEN Day0 ELSE NextDay(DayAfter(k - 1))

(***************************************************************************)
(* tryUrls, lines 419-463, one step per awaited fetch.  A call is          *)
(* [urls, label, n, i, st, res]: i the position of the URL being fetched   *)
(* (of the URL that answered, once st = "done" with digits), res the       *)
(* value the call resolved to.                                             *)
(***************************************************************************)
\* tryUrls(urls, label, n, tag) up to its first await
Call(urls, label, n) ==
  [urls |-> urls, label |-> label, n |-> n, i |-> 1,
   st   |-> IF Len(urls) = 0 THEN "done" ELSE "fetching",
   res  |-> Absent]

\* the end of one iteration without digits: the next URL, or line 462
Advance(J) ==
  IF J.i < Len(J.urls) THEN [J EXCEPT !.i = J.i + 1]
  ELSE [J EXCEPT !.i = J.i + 1, !.st = "done", !.res = Absent]

\* the calls the table can give rise to, as <<urls, label, n>>
Slots == {<<U[s][g][t].urls, U[s][g][t].label, IF g = "p3" THEN 3 ELSE 4>> :
            <<s, g, t>> \in {x \in (DOMAIN U) \X {"p3", "p4"} \X {"mid", "eve", "ngt"} :
                               x[3] \in DOMAIN U[x[1]][x[2]]}}

\* Branch for every URL and label of the table, worked out once
BranchOf ==
  [u \in UNION {Range(c[1]) : c \in Slots}, label \in {c[2] : c \in Slots} |-> Branch(u, label)]

\* the branches the URLs of the table lead to, each with its label and n
Branches ==
  UNION {{<<BranchOf[c[1][i], c[2]], c[2], c[3]>> : i \in 1..Len(c[1])} : c \in Slots}

\* ExtractIn for each of them, every document and every reading of the
\* clock, worked out once
Extraction ==
  [b \in Branches, body \in DOMAIN Docs, today \in {DayAfter(d) : d \in 0..MaxTicks}
     |-> ExtractIn(b[1], b[2], b[3], Docs[body], today)]

\* a loop that a failed request ends
Rethrown(J) == [J EXCEPT !.st = "done", !.res = Absent]

\* a catch that tries the same URL again
CaughtRetry(J) == J

\* the catch of lines 458-460: the failure is logged and the loop goes on
Caught(J) == Advance(J)

\* a loop that returns what the first document fetched yields
ExtractedFirstFetched(J, o, today) ==
  [J EXCEPT !.st = "done",
            !.res = Extraction[<<BranchOf[J.urls[J.i], J.label], J.label, J.n>>, o.body, today]]

\* a loop that keeps the digits found and goes on to the next URL
ExtractedAndOn(J, o, today) ==
  LET r == Extraction[<<BranchOf[J.urls[J.i], J.label], J.label, J.n>>, o.body, today]
  IN IF Truthy(r.digits) /\ J.i < Len(J.urls) THEN [J EXCEPT !.i = J.i + 1, !.res = r]
     ELSE IF Truthy(r.digits) THEN [J EXCEPT !.st = "done", !.res = r]
     ELSE Advance(J)

\* a loop whose date outlives the iteration: the date of a page that gave
\* no digits is kept for a later page that gives digits and no date
ExtractedDateKept(J, o, today) ==
  LET r    == Extraction[<<BranchOf[J.urls[J.i], J.label], J.label, J.n>>, o.body, today]
      date == OrDate(r.date, J.res.date)
  IN IF Truthy(r.digits) THEN [J EXCEPT !.st = "done", !.res = [digits |-> r.digits, date |-> date]]
     ELSE IF J.i < Len(J.urls)
       THEN [J EXCEPT !.i = J.i + 1, !.res = [digits |-> Null, date |-> date]]
     ELSE Advance(J)

\* the extraction made with a clock that is a day ahead
ExtractedDayAhead(J, o, today) ==
  LET r == Extraction[<<BranchOf[J.urls[J.i], J.label], J.label, J.n>>, o.body, NextDay(today)]
  IN IF Truthy(r.digits) THEN [J EXCEPT !.st = "done", !.res = r] ELSE Advance(J)

\* lines 423-456 for the response o: return on digits, else go on
Extracted(J, o, today) ==
  LET r == Extraction[<<BranchOf[J.urls[J.i], J.label], J.label, J.n>>, o.body, today]
  IN IF Truthy(r.digits) THEN [J EXCEPT !.st = "done", !.res = r] ELSE Advance(J)

(***************************************************************************)
(* combinedPair, lines 609-666                                             *)
(***************************************************************************)
\* let hasNight = S.p3.ngt && S.p4.ngt
hasNight(S) == "ngt" \in DOMAIN S.p3 /\ "ngt" \in DOMAIN S.p4

\* six calls for every state, the evening's entries standing for the night's
JobsOfSix(S) ==
  <<Call(S.p3.mid.urls, S.p3.mid.label, 3), Call(S.p3.eve.urls, S.p3.eve.label, 3),
    Call(S.p4.mid.urls, S.p4.mid.label, 4), Call(S.p4.eve.urls, S.p4.eve.label, 4),
    Call(S.p3.eve.urls, S.p3.eve.label, 3), Call(S.p4.eve.urls, S.p4.eve.label, 4)>>

\* the calls of lines 612-626, in the order of the jobs array
JobsOf(S) ==
  <<Call(S.p3.mid.urls, S.p3.mid.label, 3), Call(S.p3.eve.urls, S.p3.eve.label, 3),
    Call(S.p4.mid.urls, S.p4.mid.label, 4), Call(S.p4.eve.urls, S.p4.eve.label, 4)>>
  \o (IF hasNight(S)
        THEN <<Call(S.p3.ngt.urls, S.p3.ngt.label, 3), Call(S.p4.ngt.urls, S.p4.ngt.label, 4)>>
        ELSE <<>>)

\* ok(s, n): a string of n characters, all decimal digits
ok(s, n) == s # Null /\ Len(s) = n /\ Len(s) > 0 /\ \A k \in 1..Len(s) : IsDigit(s[k])

\* the digits of a result used as they come
CheckedNonNull(r, n) == r.digits

\* ok(r.digits, n) ? r.digits : null
Checked(r, n) == IF ok(r.digits, n) THEN r.digits ELSE Null

\* a pair that is built when either half is there
CombinedEither(a, b) == IF Truthy(a) \/ Truthy(b) THEN a \o <<"-">> \o b ELSE Null

\* (a && b) ? `${a}-${b}` : null
Combined(a, b) == IF Truthy(a) /\ Truthy(b) THEN a \o <<"-">> \o b ELSE Null

\* pickLatest, lines 647-650
pickLatest(a, b) ==
  IF a # NoDate /\ b # NoDate THEN (IF DateGeq(a, b) THEN a ELSE b)
  ELSE OrDate(a, OrDate(b, NoDate))

\* a slot date taken from the halves whether or not the pair was built
SlotDateAlways(combined, a, b) == pickLatest(a.date, b.date)

\* a built slot without a date is given a date of its own, the clock's last day
SlotDateInvented(combined, a, b) ==
  IF combined # Null THEN OrDate(pickLatest(a.date, b.date), DayAfter(MaxTicks)) ELSE NoDate

\* lines 652-654: combined ? pickLatest(a.date, b.date) : null
SlotDate(combined, a, b) == IF combined # Null THEN pickLatest(a.date, b.date) ELSE NoDate

\* [...].filter(Boolean).sort((a,b)=>a.valueOf()-b.valueOf()).pop() || null
Latest3(a, b, c) == pickLatest(pickLatest(a, b), c)

\* the report built after Promise.all from the results of the calls, the
\* clock reading today
combinedPair(results, today) ==
  LET night   == Len(results) > 4
      mid3    == results[1]
      eve3    == results[2]
      mid4    == results[3]
      eve4    == results[4]
      n3      == IF night THEN results[5] ELSE Absent
      n4      == IF night THEN results[6] ELSE Absent
      midday  == Combined(Checked(mid3, 3), Checked(mid4, 4))
      evening == Combined(Checked(eve3, 3), Checked(eve4, 4))
      nightC  == Combined(Checked(n3, 3), Checked(n4, 4))
      middayDate  == SlotDate(midday, mid3, mid4)
      eveningDate == SlotDate(evening, eve3, eve4)
      nightDate   == SlotDate(nightC, n3, n4)
      latest      == Latest3(middayDate, eveningDate, nightDate)
  IN [dateISO |-> FormatISO(IF latest # NoDate THEN latest ELSE today),
      midday  |-> midday, evening |-> evening, night |-> nightC]

(***************************************************************************)
(* GET /api/:state/latest, lines 669-682                                   *)
(***************************************************************************)
\* names every object answers to: U[key] is then a value that is no state
ObjectPrototype == {"constructor", "toString"}

\* the keys a request can carry
Keys == DOMAIN U \cup ObjectPrototype \cup {"tx"}

NoResp == [status |-> 0, body |-> [error |-> "none"]]

\* the 200 response of the catch block, lines 675-681
Fallback(today) ==
  [status |-> 200,
   body   |-> [dateISO |-> FormatISO(today), midday |-> Null, evening |-> Null, night |-> Null]]


(***************************************************************************)
(* The state machine.                                                      *)
(*   now    the calendar date of Date.now() in America/New_York            *)
(*   ticks  the midnights passed since the start                           *)
(*   key    req.params.state                                               *)
(*   pc     where the handler is: "idle" (request received), "waiting"     *)
(*          (in Promise.all), "done" (response sent); "try" when a single  *)
(*          call of tryUrls is run alone, "pure" when functions are        *)
(*          applied alone                                                  *)
(*   jobs   the calls of tryUrls in flight                                 *)
(*   web    web[j][i]: the ways the request for URL i of call j can end    *)
(*   resp   the response sent                                              *)
(*   probe  the last application of a function run alone                   *)
(***************************************************************************)
NoProbe == [op |-> "none"]

\* every request of the calls can end in each way of S
Always(calls, S) ==
  [j \in 1..Len(calls) |-> [i \in 1..Len(calls[j].urls) |-> S]]

\* the site is up: the ways a request for a 3-digit game's page and one for
\* a 4-digit game's page can end
SiteUp(calls) ==
  [j \in 1..Len(calls) |-> [i \in 1..Len(calls[j].urls) |->
     IF calls[j].n = 3
       THEN {Timeout, Served("rows3"), Served("empty")}
       ELSE {Answer(503, "rows3"), Served("rows4")}]]

Init ==
  /\ now = Day0
  /\ ticks = 0
  /\ key \in Keys
  /\ pc = "idle"
  /\ jobs = <<>>
  /\ web \in (IF key \in DOMAIN U
                THEN {SiteUp(JobsOf(U[key])), Always(JobsOf(U[key]), Failures)}
                ELSE {<<>>})
  /\ resp = NoResp
  /\ probe = NoProbe

\* line 671: if(!U[key]) return res.status(404).json({error:'unknown_state'})
RouteUnknown ==
  /\ pc = "idle"
  /\ key \notin DOMAIN U
  /\ key \notin ObjectPrototype
  /\ resp' = [status |-> 404, body |-> [error |-> "unknown_state"]]
  /\ pc' = "done"
  /\ UNCHANGED <<now, ticks, key, jobs, web, probe>>

\* U[key] is a value without p3: combinedPair throws at line 613 and the
\* catch block answers
RouteThrow ==
  /\ pc = "idle"
  /\ key \in ObjectPrototype
  /\ resp' = Fallback(now)
  /\ pc' = "done"
  /\ UNCHANGED <<now, ticks, key, jobs, web, probe>>

\* lines 609-628: combinedPair starts its calls and awaits them all
RouteLaunch ==
  /\ pc = "idle"
  /\ key \in DOMAIN U
  /\ jobs' = JobsOf(U[key])
  /\ pc' = "waiting"
  /\ UNCHANGED <<now, ticks, key, web, resp, probe>>

\* the awaited fetch of call j rejects: the catch of lines 458-460
FetchFail(j) ==
  /\ jobs[j].st = "fetching"
  /\ \E o \in web[j][jobs[j].i] : Throws(o)
  /\ jobs' = [jobs EXCEPT ![j] = Caught(jobs[j])]
  /\ UNCHANGED <<now, ticks, key, pc, web, resp, probe>>

\* the awaited fetch of call j resolves: lines 423-456
FetchOk(j) ==
  /\ jobs[j].st = "fetching"
  /\ \E o \in web[j][jobs[j].i] :
       /\ ~Throws(o)
       /\ jobs' = [jobs EXCEPT ![j] = Extracted(jobs[j], o, now)]
  /\ UNCHANGED <<now, ticks, key, pc, web, resp, probe>>

\* a wait that ends when the first call returns
SettledAny(J) == \E j \in 1..Len(J) : J[j].st = "done"

\* await Promise.all(jobs), line 628: every call has returned
Settled(J) == \A j \in 1..Len(J) : J[j].st = "done"

\* Promise.all resolves: lines 628-665 and the response of line 674
Aggregate ==
  /\ pc = "waiting"
  /\ Settled(jobs)
  /\ resp' = [status |-> 200,
              body   |-> combinedPair([j \in 1..Len(jobs) |-> jobs[j].res], now)]
  /\ pc' = "done"
  /\ UNCHANGED <<now, ticks, key, jobs, web, probe>>

\* midnight passes in America/New_York while the handler is at work
Tick ==
  /\ ticks < MaxTicks
  /\ pc \in {"idle", "waiting"} \/ (pc = "try" /\ jobs[1].st = "fetching")
  /\ now' = NextDay(now)
  /\ ticks' = ticks + 1
  /\ UNCHANGED <<key, pc, jobs, web, resp, probe>>

Next ==
  \/ RouteUnknown
  \/ RouteThrow
  \/ RouteLaunch
  \/ \E j \in 1..Len(jobs) : FetchFail(j)
  \/ \E j \in 1..Len(jobs) : FetchOk(j)
  \/ Aggregate
  \/ Tick

Spec == Init /\ [][Next]_vars


(***************************************************************************)
(* One call of tryUrls run alone: every call the table gives rise to and   *)
(* a call with no URL, each request ending in one fixed way.               *)
(***************************************************************************)
Outcomes == Failures \cup {Served(d) : d \in DOMAIN Docs}

InitTry ==
  /\ now = Day0
  /\ ticks = 0
  /\ key = "-"
  /\ pc = "try"
  /\ \E c \in Slots \cup {<< <<>>, "Midday", 3 >>} :
       /\ jobs = <<Call(c[1], c[2], c[3])>>
       /\ web \in {<<w>> : w \in [1..Len(c[1]) -> {{o} : o \in Outcomes}]}
  /\ resp = NoResp
  /\ probe = NoProbe

NextTry ==
  \/ \E j \in 1..Len(jobs) : FetchFail(j)
  \/ \E j \in 1..Len(jobs) : FetchOk(j)
  \/ Tick

SpecTry == InitTry /\ [][NextTry]_vars


(***************************************************************************)
(* The pure functions applied on their own: one application per behaviour, *)
(* the input and the result recorded in probe.                             *)
(***************************************************************************)
\* the digit strings the probes of the digit picker are built from
DrawnDigits ==
  {<<"4","1","7">>, <<"0","2","7">>, <<"9","0","0">>, <<"4","1","7","0">>, <<"0","0","2","7">>}

\* a container whose elements are the digits, one per leaf <tag>; the leaf
\* stands alone (wrap = "") or alone inside a <wrap>; a label element comes
\* first when lead holds
DigitContainer(digits, tag, wrap, lead) ==
  <<El(0, "section")>>
  \o (IF lead THEN Leaf(1, "h3", <<"M","i","d","d","a","y">>) ELSE <<>>)
  \o (IF wrap = "" THEN DigitLeaves(1, tag, digits)
      ELSE WrappedDigitLeaves(1, wrap, tag, digits))

\* the nestings an HTML parser leaves as written: a <p> is closed by a block
\* that starts inside it, an <li> by the next <li>
WellNested(tag, wrap) == (wrap = "p" => tag = "span") /\ (wrap = "li" => tag # "li")

ApplyPickNodes ==
  /\ pc = "pure"
  /\ \E digits \in DrawnDigits, tag \in {"span", "div", "li", "p"},
        wrap \in {"", "span", "div", "li", "p", "a", "strong"}, lead \in BOOLEAN :
       /\ WellNested(tag, wrap)
       /\ probe' = [op |-> "pickConsecutiveSingleDigitNodes",
                    digits |-> digits, tag |-> tag, wrap |-> wrap, lead |-> lead,
                    out |-> pickConsecutiveSingleDigitNodes(
                              DigitContainer(digits, tag, wrap, lead), 1, Len(digits))]
  /\ pc' = "applied"
  /\ UNCHANGED <<now, ticks, key, jobs, web, resp>>

\* the texts of the elements that name one draw
LabelTexts ==
  {<<"M","i","d","d","a","y">>, <<"E","v","e","n","i","n","g">>, <<"N","i","g","h","t">>,
   <<"D","a","y">>, <<"D","a","y","t","i","m","e">>,
   <<"N","I","G","H","T">>, <<"m","i","d","d","a","y">>, <<"e","v","e","n","i","n","g">>}

\* the labels the table gives the draws of the state S
LabelsOf(S) == {S.p3[t].label : t \in DOMAIN S.p3} \cup {S.p4[t].label : t \in DOMAIN S.p4}

ApplyLabelTest ==
  /\ pc = "pure"
  /\ \E s \in DOMAIN U, text \in LabelTexts :
       \E a \in LabelsOf(U[s]), b \in LabelsOf(U[s]) :
         /\ a # b
         /\ probe' = [op |-> "CT_LABEL_RE", state |-> s, a |-> a, b |-> b, text |-> text,
                      out |-> <<LabelTest(a, text), LabelTest(b, text)>>]
  /\ pc' = "applied"
  /\ UNCHANGED <<now, ticks, key, jobs, web, resp>>

\* String.prototype.toUpperCase on the first character
Capitalised(t) ==
  <<UpperChars[CHOOSE i \in 1..Len(LowerChars) : LowerChars[i] = t[1]]>> \o Tail(t)

\* the written forms of a date: "9/10", "9/10/25", "Sep 10", "Sep 10, 2025"
NumericText(M, D, year) ==
  padStart(M, 1) \o <<"/">> \o padStart(D, 1)
  \o (IF year = <<>> THEN <<>> ELSE <<"/">> \o year)

MonthNameText(name, D, year) ==
  Capitalised(name) \o <<" ">> \o padStart(D, 1)
  \o (IF year = <<>> THEN <<>> ELSE <<",", " ">> \o year)

\* the text around a written date
InSentence(t, embedded) ==
  IF embedded THEN <<"W","e","d",","," "," ">> \o t \o <<" ","d","r","a","w">> ELSE t

ProbeMonths == {1, 9, 12}
ProbeDays == {1, 10, 28}
NumericYears == {<<>>, <<"2","5">>, <<"9","9">>, <<"0","0">>, <<"2","0","2","5">>, <<"1","9","9","9">>}
MonthNameYears == {<<>>, <<"2","0","2","5">>, <<"1","9","9","9">>}

ApplyParseDate ==
  /\ pc = "pure"
  /\ \E M \in ProbeMonths, D \in ProbeDays, embedded \in BOOLEAN :
       \/ \E year \in NumericYears :
            LET text == InSentence(NumericText(M, D, year), embedded)
            IN probe' = [op |-> "parseDateFromText", form |-> "numeric",
                         M |-> M, D |-> D, year |-> year, text |-> text,
                         out |-> parseDateFromText(text, now)]
       \/ \E year \in MonthNameYears, name \in MonthForms[M] :
            LET text == InSentence(MonthNameText(name, D, year), embedded)
            IN probe' = [op |-> "parseDateFromText", form |-> "month",
                         M |-> M, D |-> D, year |-> year, text |-> text,
                         out |-> parseDateFromText(text, now)]
  /\ pc' = "applied"
  /\ UNCHANGED <<now, ticks, key, jobs, web, resp>>

\* a report whose midday pair is built and dated by a date-like token of
\* the page, the fields of the token in or out of range. A date carried
\* beyond the year 9999 is formatted with a year of five digits, or is an
\* invalid date where the engine's Date parser refuses that year in the
\* timezone arithmetic; format() then returns "Invalid Date"
ApplyDateISO ==
  /\ pc = "pure"
  /\ \E D \in {0, 1, 31, 32, 45} : \E text \in
          {NumericText(M, D, year) :
             M \in {0, 2, 12, 13}, year \in {<<>>, <<"2","5">>, <<"2","0","2","4">>, <<"9","9","9","9">>}}
          \cup {MonthNameText(name, D, year) :
             name \in MonthForms[2] \cup MonthForms[12],
             year \in {<<>>, <<"2","0","2","4">>, <<"9","9","9","9">>}} :
       LET date   == parseDateFromText(text, now)
           report == combinedPair(<<[digits |-> <<"4","1","7">>, date |-> date], Absent,
                                    [digits |-> <<"4","1","7","0">>, date |-> NoDate], Absent>>,
                                  now)
       IN \E iso \in {report.dateISO}
                     \cup (IF date.y > 9999
                             THEN {<<"I","n","v","a","l","i","d"," ","D","a","t","e">>}
                             ELSE {}) :
            probe' = [op |-> "dateISO", text |-> text, out |-> date, iso |-> iso]
  /\ pc' = "applied"
  /\ UNCHANGED <<now, ticks, key, jobs, web, resp>>

\* combinedPair on the results of four or six calls, each with digits that
\* are null, of the game's length, of another length, or not all decimal
ApplyCombinedPair ==
  /\ pc = "pure"
  /\ \E night \in BOOLEAN :
       \E results \in [1..(IF night THEN 6 ELSE 4) ->
                        [digits : {Null, <<>>, <<"4","1","7">>, <<"4","1","7","0">>,
                                   <<"4","a","7">>, <<"4","1"," ","0">>},
                         date   : {NoDate, [y |-> 2025, m |-> 9, d |-> 10]}]] :
         /\ \A j \in 3..Len(results) : results[j].date = NoDate
         /\ night => /\ results[2].digits \in {Null, <<"4","1","7">>}
                     /\ results[4].digits \in {Null, <<"4","1","7","0">>}
         /\ probe' = [op |-> "combinedPair", results |-> results,
                      out |-> combinedPair(results, now)]
  /\ pc' = "applied"
  /\ UNCHANGED <<now, ticks, key, jobs, web, resp>>

\* extractByLabel on a "Latest numbers" section that shows the midday and
\* the evening draw of a 3-digit game, in either order, each draw a label
\* followed by its block of digits, bare or inside an element of its own
ApplyExtractByLabel ==
  /\ pc = "pure"
  /\ \E wrap \in {"", "div", "article"}, label \in {"Midday", "Evening"},
        first \in {"Midday", "Evening"}, dated \in BOOLEAN :
       LET digits == [Midday |-> <<"4","1","7">>, Evening |-> <<"0","2","7">>]
           text   == [Midday |-> <<"M","i","d","d","a","y">>, Evening |-> <<"E","v","e","n","i","n","g">>]
           date   == IF dated THEN <<"S","e","p"," ","1","0",","," ","2","0","2","5">> ELSE <<>>
           other(l) == IF l = "Midday" THEN "Evening" ELSE "Midday"
           block(l) == IF wrap = "" THEN Draw(3, text[l], digits[l], date)
                       ELSE <<El(3, wrap)>> \o Draw(4, text[l], digits[l], date)
           doc    == Page(Latest(block(first) \o block(other(first))))
       IN probe' = [op |-> "extractByLabel", doc |-> doc, label |-> label, first |-> first,
                    wrap |-> wrap, own |-> digits[label], other |-> digits[other(label)],
                    anchor |-> LabelElement(doc, LatestSection(doc), label),
                    out |-> extractByLabel(doc, label, 3, now)]
  /\ pc' = "applied"
  /\ UNCHANGED <<now, ticks, key, jobs, web, resp>>

\* new RegExp(`\\b${label.toLowerCase()}\\b`, 'i').test(t), the label test of
\* the revision of src/server/index.js, line 220
WordLabelTest(label, t) ==
  LET lit == [Day |-> <<"d","a","y">>, Night |-> <<"n","i","g","h","t">>,
              Midday |-> <<"m","i","d","d","a","y">>,
              Evening |-> <<"e","v","e","n","i","n","g">>][label]
  IN \E i \in 1..(Len(t) + 1) :
       WordBoundary(t, i) /\ LitAtCI(t, i, lit) /\ WordBoundary(t, i + Len(lit))

\* the label test of step 2 of extractByLabel, line 369, on the text of one
\* element: a label alone, in upper or lower case, or inside a longer word
ApplyLabelWord ==
  /\ pc = "pure"
  /\ \E label \in DOMAIN CT_LABEL_RE :
       \E text \in {<<"T","o","d","a","y">>, <<"M","o","n","d","a","y">>, <<"M","i","d","d","a","y">>,
                    <<"T","o","n","i","g","h","t">>, <<"N","i","g","h","t","l","y">>,
                    <<"D","A","Y">>, <<"d","a","y">>, <<" ","D","a","y"," ","d","r","a","w"," ">>,
                    <<"N","i","g","h","t">>, <<"E","V","E","N","I","N","G",":">>,
                    <<"D","a","y","t","i","m","e">>, <<"P","i","c","k"," ","3">>} :
         probe' = [op |-> "labelWord", label |-> label, text |-> text,
                   out  |-> LabelTest(label, toLowerCase(trim(text))),
                   word |-> WordLabelTest(label, toLowerCase(trim(text)))]
  /\ pc' = "applied"
  /\ UNCHANGED <<now, ticks, key, jobs, web, resp>>

\* pickNDigitsFromTextSafe on the text of one container: digits alone, with
\* filler, beside or inside a longer number, and inside an amount, a clock
\* time, a prize phrase or a month-name date
ApplyPickText ==
  /\ pc = "pure"
  /\ \E n \in {3, 4} : \E t \in {
            [kind |-> "plain", text |-> <<"4"," ","1"," ","7">>],
            [kind |-> "plain", text |-> <<"4","1","7">>],
            [kind |-> "plain", text |-> <<"M","i","d","d","a","y",":"," ","4","-","1","-","7"," ","0">>],
            [kind |-> "plain", text |-> <<"M","i","d","d","a","y"," ","0","2","7","0">>],
            [kind |-> "plain", text |-> <<"T","i","c","k","e","t"," ","1","2","3","4","5","6","7","8">>],
            [kind |-> "plain", text |-> <<"T","i","c","k","e","t"," ","1","2","3","4","5","6","7","8"," ","t","h","e","n"," ","4","1","7">>],
            [kind |-> "plain", text |-> <<"4"," ","1"," ","a","n","d"," ","0","2","7","0">>],
            [kind |-> "plain", text |-> <<"1","2"," ","4","1","7"," ","0","2","7","0">>],
            [kind |-> "plain", text |-> <<"N","o"," ","r","e","s","u","l","t","s"," ","y","e","t">>],
            [kind |-> "money", text |-> <<"T","o","p"," ","$","5","0","0">>],
            [kind |-> "money", text |-> <<"$","5",",","0","0","0",".","0","0"," ","j","a","c","k","p","o","t">>],
            [kind |-> "time", text |-> <<"C","l","o","s","e","s"," ","1","2",":","5","9"," ","p","m">>],
            [kind |-> "time", text |-> <<"D","a","i","l","y"," ","9",":","4","5","p","m">>],
            [kind |-> "prize", text |-> <<"T","o","p"," ","p","r","i","z","e"," ","5","0","0"," ","t","o","d","a","y">>],
            [kind |-> "prize", text |-> <<"O","d","d","s"," ","1"," ","i","n"," ","1","0","0","0">>],
            [kind |-> "prize", text |-> <<"P","a","y","o","u","t"," ","2","5","0","0">>],
            [kind |-> "monthdate", text |-> <<"S","e","p"," ","1","0",","," ","2","0","2","5">>],
            [kind |-> "monthdate", text |-> <<"W","e","d",","," ","D","e","c"," ","3","1"," ","2","0","2","5">>] } :
       probe' = [op |-> "pickNDigitsFromTextSafe", n |-> n, kind |-> t.kind, text |-> t.text,
                 cleaned |-> cleanTextBlocks(t.text),
                 out |-> pickNDigitsFromText(t.text, n)]
  /\ pc' = "applied"
  /\ UNCHANGED <<now, ticks, key, jobs, web, resp>>

\* parseDateFromText on a text with two date forms of different kinds, in
\* either order, and on the numeric form written with dashes; and the date
\* extractByLabel gives when the candidate, the label element and the rest
\* of the document each show a date or none.  cls is the kind of a form: 1 a
\* relative phrase, 2 a month name, 3 the numeric form; date is the date the
\* form names at the clock reading now
ApplyDateText ==
  /\ pc = "pure"
  /\ LET forms == {[cls |-> 1, text |-> <<"t","o","d","a","y">>, date |-> now],
                   [cls |-> 1, text |-> <<"t","h","i","s"," ","e","v","e","n","i","n","g">>, date |-> now],
                   [cls |-> 2, text |-> <<"S","e","p"," ","1","2",","," ","2","0","2","5">>, date |-> [y |-> 2025, m |-> 9, d |-> 12]],
                   [cls |-> 2, text |-> <<"D","e","c","e","m","b","e","r"," ","3">>, date |-> [y |-> now.y, m |-> 12, d |-> 3]],
                   [cls |-> 3, text |-> <<"9","/","1","0","/","2","0","2","5">>, date |-> [y |-> 2025, m |-> 9, d |-> 10]],
                   [cls |-> 3, text |-> <<"1","/","2","/","2","4">>, date |-> [y |-> 2024, m |-> 1, d |-> 2]]}
         dashed == {[cls |-> 3, text |-> <<"9","-","1","0","-","2","0","2","5">>, date |-> [y |-> 2025, m |-> 9, d |-> 10]],
                    [cls |-> 3, text |-> <<"D","r","a","w","n"," ","9","-","1","0","-","2","5">>, date |-> [y |-> 2025, m |-> 9, d |-> 10]],
                    [cls |-> 3, text |-> <<"9","-","1","0">>, date |-> [y |-> now.y, m |-> 9, d |-> 10]]}
         none   == [cls |-> 0, text |-> <<>>, date |-> NoDate]
         rest   == [cls |-> 3, text |-> <<"9","/","8","/","2","0","2","5">>, date |-> [y |-> 2025, m |-> 9, d |-> 8]]
     IN \/ \E a \in forms, b \in forms :
             /\ a.cls # b.cls
             /\ probe' = [op |-> "dates", kind |-> "two", a |-> a, b |-> b,
                          out |-> parseDateFromText(a.text \o <<" ">> \o b.text, now)]
        \/ \E a \in dashed :
             probe' = [op |-> "dates", kind |-> "dashed", a |-> a, b |-> none,
                       out |-> parseDateFromText(a.text, now)]
        \/ \E a \in forms \cup {none}, b \in forms \cup {none}, r \in {none, rest} :
             LET doc == Page(Latest(
                          Leaf(3, "p", <<"R","e","s","u","l","t","s"," ">> \o r.text \o <<" ">>)
                          \o Leaf(3, "span", <<"M","i","d","d","a","y"," ">> \o b.text)
                          \o <<El(3, "div")>> \o DigitLeaves(4, "span", <<"4","1","7">>)
                          \o (IF a.cls = 0 THEN <<>> ELSE Leaf(4, "time", <<" ">> \o a.text \o <<" ">>))))
             IN probe' = [op |-> "dates", kind |-> "nested", a |-> a, b |-> b, r |-> r,
                          out |-> extractByLabel(doc, "Midday", 3, now).date]
  /\ pc' = "applied"
  /\ UNCHANGED <<now, ticks, key, jobs, web, resp>>

\* step 1 of extractByLabel on a document with one section, a section inside
\* a section, or two sections side by side, under a heading that names the
\* latest numbers, the latest results, or neither
ApplyLatestSection ==
  /\ pc = "pure"
  /\ \E shape \in {"single", "nested", "siblings"} :
       \E heading \in {<<"L","a","t","e","s","t"," ","n","u","m","b","e","r","s">>,
                       <<"L","a","t","e","s","t"," ","R","e","s","u","l","t","s">>,
                       <<"P","a","s","t"," ","n","u","m","b","e","r","s">>} :
         LET midday  == Draw(4, <<"M","i","d","d","a","y">>, <<"4","1","7">>, <<>>)
             evening == Draw(4, <<"E","v","e","n","i","n","g">>, <<"0","2","7">>, <<>>)
             note    == Leaf(3, "p", <<"N","u","m","b","e","r","s"," ","a","r","e"," ","d","r","a","w","n"," ","t","w","i","c","e"," ","a"," ","d","a","y",".">>)
             doc == IF shape = "single"
                      THEN Page(<<El(2, "section")>> \o Leaf(3, "h2", heading) \o midday \o evening)
                    ELSE IF shape = "nested"
                      THEN Page(<<El(2, "section"), El(3, "section")>> \o Leaf(4, "h2", heading)
                                \o midday \o evening \o note)
                    ELSE Page(<<El(2, "section")>> \o Leaf(3, "h2", heading) \o midday \o note
                              \o <<El(2, "section")>> \o Leaf(3, "h2", heading) \o evening)
         IN probe' = [op |-> "LatestSection", shape |-> shape, heading |-> heading, doc |-> doc,
                      scope |-> LatestSection(doc)]
  /\ pc' = "applied"
  /\ UNCHANGED <<now, ticks, key, jobs, web, resp>>

InitPure ==
  /\ now \in {DayAfter(d) : d \in 0..MaxTicks}
  /\ ticks = 0
  /\ key = "-"
  /\ pc = "pure"
  /\ jobs = <<>>
  /\ web = <<>>
  /\ resp = NoResp
  /\ probe = NoProbe

NextPure ==
  \/ ApplyPickNodes
  \/ ApplyLabelTest
  \/ ApplyParseDate
  \/ ApplyDateISO
  \/ ApplyCombinedPair
  \/ ApplyExtractByLabel
  \/ ApplyLabelWord
  \/ ApplyPickText
  \/ ApplyDateText
  \/ ApplyLatestSection

SpecPure == InitPure /\ [][NextPure]_vars




(***************************************************************************)
(* Properties of one call of tryUrls (SpecTry), where every request ends   *)
(* in one way.                                                             *)
(***************************************************************************)
\* the way the request for URL i of call j ends
Only(j, i) == CHOOSE o \in web[j][i] : TRUE

\* what URL i of call j gives the call, were it fetched on the day today
Yield(j, i, today) ==
  IF Throws(Only(j, i)) THEN Absent
  ELSE Extraction[<<BranchOf[jobs[j].urls[i], jobs[j].label], jobs[j].label, jobs[j].n>>,
                  Only(j, i).body, today]

\* the days the clock has shown so far
DaysSoFar == {DayAfter(d) : d \in 0..ticks}

\* C1: the digits a call of tryUrls for an n-digit game reports are null or
\* a string of exactly n decimal digits, never fewer and never more
C1_DigitsNullOrExactlyN ==
  \A j \in 1..Len(jobs) :
    \/ jobs[j].res.digits = Null
    \/ /\ Len(jobs[j].res.digits) = jobs[j].n
       /\ \A k \in 1..Len(jobs[j].res.digits) : IsDigit(jobs[j].res.digits[k])

\* a 3-digit call has returned digits taken from a page that shows four
\* single-digit elements in a row
C1_Witness ==
  /\ jobs # <<>>
  /\ jobs[1].st = "done"
  /\ jobs[1].n = 3
  /\ jobs[1].res.digits # Null
  /\ Only(1, jobs[1].i).body = "rows4"

\* C3: a call of tryUrls returns what the first URL of its list, in list
\* order, that yields digits gives, and the absent result when no URL
\* yields digits or the list is empty; it fetches no URL behind a hit
C3_FirstHitInListOrder ==
  \A j \in 1..Len(jobs) :
    LET J    == jobs[j]
        hits == {i \in 1..Len(J.urls) : Truthy(Yield(j, i, Day0).digits)}
    IN /\ (J.st = "done" /\ hits = {}) => J.res = Absent
       /\ (J.st = "done" /\ hits # {}) =>
            /\ J.i = Least(hits)
            /\ J.res \in {Yield(j, Least(hits), day) : day \in DaysSoFar}
       /\ J.st = "fetching" => \A i \in hits : i >= J.i

\* a call with three URLs has returned the second one's digits: the first
\* page missed and the third holds other digits
C3_Witness ==
  /\ jobs # <<>>
  /\ jobs[1].st = "done"
  /\ Len(jobs[1].urls) = 3
  /\ jobs[1].i = 2
  /\ ~Throws(Only(1, 1))
  /\ Truthy(jobs[1].res.digits)
  /\ Truthy(Yield(1, 3, Day0).digits)
  /\ Yield(1, 3, Day0).digits # jobs[1].res.digits

\* C4: a failed fetch or an error status at one URL is not thrown to the
\* caller, and the call returns what it would return on the list without
\* that URL: the digits of the first URL that yields some among those whose
\* request succeeds
C4_FailureAbsorbed ==
  \A j \in 1..Len(jobs) :
    LET J        == jobs[j]
        Alive(i) == ~Throws(Only(j, i))
        alive    == SelectSeq([i \in 1..Len(J.urls) |-> i], Alive)
        hits     == {k \in 1..Len(alive) : Truthy(Yield(j, alive[k], Day0).digits)}
    IN /\ J.st \in {"fetching", "done"}
       /\ J.st = "done" =>
            IF hits = {} THEN J.res = Absent
            ELSE J.res \in {Yield(j, alive[Least(hits)], day) : day \in DaysSoFar}

\* the first URL answered with an error status and the call has returned
\* the digits of the second
C4_Witness ==
  /\ jobs # <<>>
  /\ jobs[1].st = "done"
  /\ jobs[1].i = 2
  /\ Only(1, 1).err = "none"
  /\ Only(1, 1).status \notin 200..299
  /\ Truthy(jobs[1].res.digits)
  /\ jobs[1].res = Yield(1, 2, now)

\* the documents in which the element "Midday" is followed by the three
\* single-digit elements 4, 1, 7: as its siblings, and inside one wrapper
MiddayThen417 == {"sibling", "wrapper"}

\* C7: when the first page of a 3-digit "Midday" call handled by the
\* label-anchored extraction shows "Midday" followed by the single-digit
\* elements 4, 1, 7, as siblings or in one wrapper, the call returns 417
\* from that page
C7_LabelThenDigitElements ==
  \A j \in 1..Len(jobs) :
    LET J == jobs[j] IN
      (/\ Len(J.urls) > 0
       /\ J.label = "Midday"
       /\ J.n = 3
       /\ BranchOf[J.urls[1], J.label] = "generic"
       /\ ~Throws(Only(j, 1))
       /\ Only(j, 1).body \in MiddayThen417
       /\ (J.st = "done" \/ J.i > 1))
      => (J.st = "done" /\ J.i = 1 /\ J.res.digits = <<"4","1","7">>)


(***************************************************************************)
(* Properties of the route (Spec).                                         *)
(***************************************************************************)
\* the route has answered a request for a state of the table
Reported == pc = "done" /\ key \in DOMAIN U

\* the slots of the report with the positions of their 3-digit and their
\* 4-digit call in jobs
Halves ==
  {<<"midday", 1, 3>>, <<"evening", 2, 4>>}
  \cup (IF Len(jobs) > 4 THEN {<<"night", 5, 6>>} ELSE {})

\* C2: a slot of the report holds the 3-digit and the 4-digit draw joined
\* by a hyphen when both calls of the slot returned digits, and null when
\* either returned none; the night slot of a state without night draws is
\* null
C2_CombinedIffBothHalves ==
  Reported =>
    /\ \A h \in Halves :
         LET a == jobs[h[2]].res.digits
             b == jobs[h[3]].res.digits
         IN resp.body[h[1]] = IF a # Null /\ b # Null THEN a \o <<"-">> \o b ELSE Null
    /\ Len(jobs) = 4 => resp.body.night = Null

\* a report with a joined midday and a null evening one half of which was
\* found
C2_Witness ==
  /\ Reported
  /\ resp.body.midday # Null
  /\ resp.body.evening = Null
  /\ jobs[2].res.digits # Null
  /\ jobs[4].res.digits = Null

\* C5: a request for a state of the table is answered with status 200 and
\* a report, never with an error; when every request of every call fails,
\* the report holds the current date and null in every slot
C5_KnownStateNeverFails ==
  Reported =>
    /\ resp.status = 200
    /\ DOMAIN resp.body = {"dateISO", "midday", "evening", "night"}
    /\ web = Always(JobsOf(U[key]), Failures) =>
         resp.body = [dateISO |-> FormatISO(now), midday |-> Null,
                      evening |-> Null, night |-> Null]

\* every request has failed, midnight has passed meanwhile and the report
\* carries the date of the new day
C5_Witness ==
  /\ Reported
  /\ web = Always(JobsOf(U[key]), Failures)
  /\ ticks > 0
  /\ resp.body.dateISO = FormatISO(DayAfter(ticks))
  /\ resp.body.midday = Null

\* C6: dateISO is the latest of the dates found with the halves of the
\* slots whose pair was built, and the current date when no such date
\* exists; a date found with a half of a slot left null does not count
C6_LatestDateOfBuiltSlots ==
  Reported =>
    LET built == {h \in Halves : resp.body[h[1]] # Null}
        dates == UNION {{jobs[h[2]].res.date, jobs[h[3]].res.date} : h \in built} \ {NoDate}
    IN resp.body.dateISO =
         FormatISO(IF dates = {} THEN now
                   ELSE CHOOSE a \in dates : \A b \in dates : DateGeq(a, b))

\* the midday slot is null, its 3-digit half carries a date, and that date
\* is later than the one reported, which comes from the evening slot
C6_Witness ==
  /\ Reported
  /\ resp.body.midday = Null
  /\ resp.body.evening # Null
  /\ jobs[1].res.date # NoDate
  /\ jobs[1].res.date # jobs[2].res.date
  /\ DateGeq(jobs[1].res.date, jobs[2].res.date)
  /\ DateGeq(jobs[1].res.date, jobs[4].res.date)
  /\ resp.body.dateISO # FormatISO(jobs[1].res.date)
  /\ resp.body.dateISO # FormatISO(now)

(***************************************************************************)
(* Properties of the functions applied alone (SpecPure).                   *)
(***************************************************************************)
\* C8: applied to a container that holds n consecutive single-digit
\* elements, bare or each inside a wrapper of its own,
\* pickConsecutiveSingleDigitNodes returns the digits joined in order
C8_JoinsTheDigitElements ==
  probe.op = "pickConsecutiveSingleDigitNodes" => probe.out = probe.digits

\* C9: no text that names one draw is matched by the patterns of two
\* different draws of the same state
C9_LabelPatternsExclusive ==
  probe.op = "CT_LABEL_RE" => ~(probe.out[1] /\ probe.out[2])

\* C10: parseDateFromText reads "9/10/25" as 2025-09-10: month/day/year,
\* 2000 added to a two-digit year, a four-digit year taken as written; a
\* text without a year ("Sep 10", "9/10") gets the current year
C10_ParsedDate ==
  probe.op = "parseDateFromText" =>
    probe.out = [y |-> IF probe.year = <<>> THEN now.y
                       ELSE IF Len(probe.year) = 2 THEN 2000 + parseInt(probe.year)
                       ELSE parseInt(probe.year),
                 m |-> probe.M,
                 d |-> probe.D]

\* "9/10/25" has been read as 10 September 2025 in the year 2026
C10_Witness ==
  /\ probe.op = "parseDateFromText"
  /\ probe.text = <<"9","/","1","0","/","2","5">>
  /\ now.y = 2026
  /\ probe.out = [y |-> 2025, m |-> 9, d |-> 10]

\* the documents that hold no relative phrase, no month-name date and no
\* numeric date in any of their texts
Dateless == {"noisy", "empty", "sibling", "wrapper"}

\* C11: a call whose result comes from a document without any relative
\* phrase, month-name date or numeric date returns the date null, never the
\* current date
C11_NoDateTokenNoDate ==
  \A j \in 1..Len(jobs) :
    (/\ jobs[j].st = "done"
     /\ jobs[j].res.digits # Null
     /\ Only(j, jobs[j].i).body \in Dateless)
    => jobs[j].res.date = NoDate

\* a call has returned digits found in a document without a date, after
\* midnight has passed, and its date is null
C11_Witness ==
  /\ jobs # <<>>
  /\ jobs[1].st = "done"
  /\ jobs[1].res.digits # Null
  /\ Only(1, jobs[1].i).body = "wrapper"
  /\ ticks > 0
  /\ jobs[1].res.date = NoDate

(***************************************************************************)
(* The route with every request ending in one fixed way (SpecFixed): the   *)
(* first URL of each call times out or serves the game's page, the later   *)
(* URLs serve the game's page.                                             *)
(***************************************************************************)
InitFixed ==
  /\ now = Day0
  /\ ticks = 0
  /\ key \in Keys
  /\ pc = "idle"
  /\ jobs = <<>>
  /\ web \in (IF key \in DOMAIN U
                THEN LET calls   == JobsOf(U[key])
                         page(j) == Served(IF calls[j].n = 3 THEN "rows3" ELSE "rows4")
                     IN {[j \in 1..Len(calls) |-> [i \in 1..Len(calls[j].urls) |->
                            {IF i = 1 /\ j \in late THEN Timeout ELSE page(j)}]] :
                         late \in SUBSET (1..Len(calls))}
                ELSE {<<>>})
  /\ resp = NoResp
  /\ probe = NoProbe

SpecFixed == InitFixed /\ [][Next]_vars

\* what call j returns when run alone: the yield of its first URL that
\* yields digits, the absent result if there is none
Alone(j) ==
  LET hits == {i \in 1..Len(jobs[j].urls) : Truthy(Yield(j, i, Day0).digits)}
  IN IF hits = {} THEN Absent ELSE Yield(j, Least(hits), Day0)

\* C12: combinedPair starts every call of the state before it waits, answers
\* only when every call has returned, and its report is the one built from
\* what each call returns when run alone, in whatever order the fetches of
\* the calls complete
C12_ReportIndependentOfOrder ==
  /\ (pc = "waiting" /\ key \in DOMAIN U) =>
       /\ Len(jobs) = Len(JobsOf(U[key]))
       /\ \A j \in 1..Len(jobs) : jobs[j].urls = JobsOf(U[key])[j].urls
  /\ Reported =>
       /\ \A j \in 1..Len(jobs) : jobs[j].st = "done"
       /\ resp.body = combinedPair([j \in 1..Len(jobs) |-> Alone(j)], now)

\* Georgia's report with all three slots built, the first call having needed
\* its second URL and the third call only its first
C12_Witness ==
  /\ Reported
  /\ key = "ga"
  /\ resp.body.midday # Null
  /\ resp.body.night # Null
  /\ jobs[1].i = 2
  /\ jobs[3].i = 1

\* C13: within one call of tryUrls the URLs are fetched one at a time: the
\* call moves from URL k to URL k+1 only, and only when the attempt on URL k
\* has ended without digits; a call that has returned fetches nothing more
C13_OneFetchAtATime ==
  [][\A j \in 1..Len(jobs) :
       /\ jobs[j].st = "done" => jobs'[j] = jobs[j]
       /\ jobs'[j].i # jobs[j].i =>
            /\ jobs[j].st = "fetching"
            /\ jobs'[j].i = jobs[j].i + 1
            /\ ~Truthy(Yield(j, jobs[j].i, now).digits)]_vars

\* a call with three URLs has returned the digits of the first, and the
\* two URLs never fetched would have yielded digits as well
C13_Witness ==
  /\ jobs # <<>>
  /\ jobs[1].st = "done"
  /\ Len(jobs[1].urls) = 3
  /\ jobs[1].i = 1
  /\ Truthy(jobs[1].res.digits)
  /\ Truthy(Yield(1, 2, Day0).digits)
  /\ Truthy(Yield(1, 3, Day0).digits)

\* C14: a request for a key that is no state of the table is answered with
\* 404 unknown_state and starts no call; a request for a state of the table
\* is never answered with 404 or a 5xx status
C14_OnlyUnknownStateFails ==
  pc = "done" =>
    IF key \in DOMAIN U
      THEN resp.status # 404 /\ resp.status \notin 500..599
      ELSE /\ resp = [status |-> 404, body |-> [error |-> "unknown_state"]]
           /\ jobs = <<>>

\* s is YYYY-MM-DD and names a day of the calendar
IsCalendarDate(s) ==
  /\ Len(s) = 10
  /\ s[5] = "-" /\ s[8] = "-"
  /\ \A k \in {1, 2, 3, 4, 6, 7, 9, 10} : IsDigit(s[k])
  /\ parseInt(SubSeq(s, 6, 7)) \in 1..12
  /\ parseInt(SubSeq(s, 9, 10)) \in
       1..DaysInMonth(parseInt(SubSeq(s, 1, 4)), parseInt(SubSeq(s, 6, 7)))

\* C15: the dateISO of a report is a well-formed YYYY-MM-DD string that names
\* a real calendar date, whatever fields the date-like tokens of the
\* document have
C15_DateISOIsCalendarDate ==
  probe.op = "dateISO" => IsCalendarDate(probe.iso)

\* C16: a report carries a night value only for a state whose table entry has a
\* night entry for both games, and six calls are then started; for every
\* other state exactly four calls are started, the midday and the evening
\* call of each game, and the report's night is null.
C16_NightOnlyWhereConfigured ==
  (pc \in {"waiting", "done"} /\ key \in DOMAIN U) =>
    LET S == U[key]
    IN /\ Len(jobs) = (IF hasNight(S) THEN 6 ELSE 4)
       /\ <<jobs[1].label, jobs[2].label, jobs[3].label, jobs[4].label>>
            = <<S.p3.mid.label, S.p3.eve.label, S.p4.mid.label, S.p4.eve.label>>
       /\ <<jobs[1].n, jobs[2].n, jobs[3].n, jobs[4].n>> = <<3, 3, 4, 4>>
       /\ (Reported /\ resp.status = 200 /\ ~hasNight(S)) => resp.body.night = Null

C16_Witness ==
  /\ Reported /\ resp.status = 200
  /\ hasNight(U[key]) /\ Len(jobs) = 6
  /\ resp.body.night # Null

C16_WitnessFour ==
  /\ Reported /\ resp.status = 200
  /\ ~hasNight(U[key]) /\ Len(jobs) = 4
  /\ resp.body.midday # Null /\ resp.body.night = Null

\* the number of digits each place of the results array is asked for
AskedLength(j) == IF j \in {1, 2, 5} THEN 3 ELSE 4

\* a string of exactly n characters, each a decimal digit
DecimalOfLength(s, n) ==
  s \in [1..n -> {"0", "1", "2", "3", "4", "5", "6", "7", "8", "9"}]

\* the value of a slot whose halves are places a and b of the results
PairOf(results, a, b) ==
  IF /\ b <= Len(results)
     /\ DecimalOfLength(results[a].digits, 3)
     /\ DecimalOfLength(results[b].digits, 4)
    THEN results[a].digits \o <<"-">> \o results[b].digits
    ELSE Null

\* C17: combinedPair uses the digits of a result only if they are a string of
\* exactly the asked length made of decimal digits: a slot's value is the
\* two halves joined when both are such strings and null otherwise, whatever
\* the other slots' results are, and the whole report is the one combinedPair
\* gives when every other digits value is replaced by an absent result.
C17_MalformedDigitsAreAbsent ==
  probe.op = "combinedPair" =>
    LET results == probe.results
        cleaned == [j \in 1..Len(results) |->
                      IF DecimalOfLength(results[j].digits, AskedLength(j))
                        THEN results[j] ELSE Absent]
    IN /\ probe.out.midday  = PairOf(results, 1, 3)
       /\ probe.out.evening = PairOf(results, 2, 4)
       /\ probe.out.night   = PairOf(results, 5, 6)
       /\ probe.out = combinedPair(cleaned, now)

\* the 3-digit midday result has four digits: midday is null while the
\* evening and the night values are built
C17_Witness ==
  /\ probe.op = "combinedPair"
  /\ Len(probe.results) = 6
  /\ probe.results[1].digits = <<"4", "1", "7", "0">>
  /\ probe.results[1].date # NoDate
  /\ probe.out.midday = Null
  /\ probe.out.evening # Null
  /\ probe.out.night # Null

\* the elements of the scope whose text matches the label, as step 2 tests it
Matching(doc, section, label) ==
  {el \in Range(Find(doc, section, Tags({"*"}))) :
     LabelTest(label, toLowerCase(trim(Text(doc, el))))}

\* C18: among the elements of the scope whose text matches the label, the
\* element extractByLabel walks from is one with the shortest text: no
\* matching element of the scope has a shorter text than it.
C18_AnchorHasShortestText ==
  (probe.op = "extractByLabel" /\ probe.anchor # 0) =>
    \A el \in Matching(probe.doc, LatestSection(probe.doc), probe.label) :
      Len(Text(probe.doc, probe.anchor)) <= Len(Text(probe.doc, el))

\* C19: with the two draws' blocks under one section, the digits
\* extractByLabel returns for a label are never those of the other draw's
\* block, whichever block comes first.
C19_NeverTheOtherDrawsDigits ==
  probe.op = "extractByLabel" => probe.out.digits # probe.other

\* the alias a occurs in the text t as a complete word, in any case
WholeWord(t, a) ==
  \E i \in 1..Len(t) :
    /\ LitAtCI(t, i, a)
    /\ ~IsWord(At(t, i - 1))
    /\ ~IsWord(At(t, i + Len(a)))

\* C20: the label test is case-insensitive and whole-word: an element's text
\* satisfies a label exactly when one of the label's aliases occurs in it as
\* a complete word, in upper or lower case; "Today", "Monday" and "Midday"
\* do not satisfy Day, "Tonight" and "Nightly" do not satisfy Night.
C20_LabelMatchIsWholeWord ==
  probe.op = "labelWord" =>
    (probe.out <=> \E a \in CT_LABEL_RE[probe.label] : WholeWord(probe.text, a))

\* the places of the text t where a token of exactly n digits starts, no
\* digit before it and none after it
ExactTokens(t, n) ==
  {i \in 1..(Len(t) - n + 1) :
     /\ \A k \in 0..(n - 1) : IsDigit(t[i + k])
     /\ ~IsDigit(At(t, i - 1))
     /\ ~IsDigit(At(t, i + n))}

\* the digits d stand in the text t inside a longer run of digits
InLongerRun(t, d) ==
  \E i \in 1..(Len(t) - Len(d) + 1) :
    /\ SubSeq(t, i, i + Len(d) - 1) = d
    /\ IsDigit(At(t, i - 1)) \/ IsDigit(At(t, i + Len(d)))

\* C21: pickNDigitsFromTextSafe never returns n digits that are part of a
\* longer run of digits: when the cleaned text has a token of exactly n digits
\* with no digit beside it, the first such token is returned, and what is
\* returned otherwise is not cut out of a longer run.
C21_ExactTokenBeforeFiller ==
  probe.op = "pickNDigitsFromTextSafe" =>
    LET tokens == ExactTokens(probe.cleaned, probe.n)
    IN IF tokens # {}
         THEN probe.out = SubSeq(probe.cleaned, Least(tokens), Least(tokens) + probe.n - 1)
         ELSE probe.out = Null \/ ~InLongerRun(probe.cleaned, probe.out)

\* C22: the digits of an amount, a clock time, a prize phrase or a
\* month-name date are removed before the search: a text whose only digits
\* stand inside such a pattern yields no digits.
C22_NoiseDigitsNeverReturned ==
  (probe.op = "pickNDigitsFromTextSafe" /\ probe.kind # "plain") => probe.out = Null

\* C23: when the label is found in the scope and the scope as a whole holds
\* n extractable digits, under the structural or the textual strategy, the
\* label-anchored extraction widens from the anchor until it finds them: a
\* call whose first page is such a document returns digits from that page.
C23_WideningFindsDigits ==
  \A j \in 1..Len(jobs) :
    LET J == jobs[j] IN
      (/\ Len(J.urls) > 0
       /\ BranchOf[J.urls[1], J.label] = "generic"
       /\ ~Throws(Only(j, 1))
       /\ (J.st = "done" \/ J.i > 1)
       /\ LET doc   == Docs[Only(j, 1).body]
              scope == LatestSection(doc)
          IN /\ LabelElement(doc, scope, J.label) # 0
             /\ Truthy(DigitsIn(doc, scope, J.n)))
      => (J.i = 1 /\ J.res.digits # Null)

\* C24: in one text a relative phrase wins over a month-name date and a
\* month-name date over a numeric date, wherever each stands; and the date of
\* the candidate's text wins over the label element's, the label element's
\* over the whole document's.
C24_DatePriority ==
  /\ (probe.op = "dates" /\ probe.kind = "two") =>
       probe.out = (IF probe.a.cls < probe.b.cls THEN probe.a.date ELSE probe.b.date)
  /\ (probe.op = "dates" /\ probe.kind = "nested") =>
       probe.out = (IF probe.a.cls # 0 THEN probe.a.date
                    ELSE IF probe.b.cls # 0 THEN probe.b.date
                    ELSE probe.r.date)

\* a numeric date before a month-name date gives the month-name date
C24_Witness ==
  /\ probe.op = "dates" /\ probe.kind = "two"
  /\ probe.a.cls = 3 /\ probe.b.cls = 2
  /\ probe.out = probe.b.date /\ probe.out # probe.a.date

\* the label element's numeric date wins over the earlier date of the document
C24_WitnessNested ==
  /\ probe.op = "dates" /\ probe.kind = "nested"
  /\ probe.a.cls = 0 /\ probe.b.cls = 3 /\ probe.r.cls = 3
  /\ probe.out = probe.b.date

\* C25: the numeric date written with dashes resolves to the date the same
\* numbers written with slashes resolve to.
C25_DashesAsSlashes ==
  (probe.op = "dates" /\ probe.kind = "dashed") => probe.out = probe.a.date

\* place j of the results is a half of a built slot and carries a date
DatedHalfOfBuiltSlot(results, j) ==
  /\ j <= Len(results)
  /\ results[j].date # NoDate
  /\ \/ j \in {1, 3} /\ PairOf(results, 1, 3) # Null
     \/ j \in {2, 4} /\ PairOf(results, 2, 4) # Null
     \/ j \in {5, 6} /\ PairOf(results, 5, 6) # Null

\* C26: combinedPair gives no date to a slot whose halves carry none: with
\* the one date the dated results carry, 10 September 2025, earlier than the
\* clock's day, dateISO is that date whenever a built slot has a dated half,
\* whatever built slots without a date stand beside it, and the clock's day
\* only when no built slot has a date.
C26_NoInventedSlotDate ==
  probe.op = "combinedPair" =>
    probe.out.dateISO =
      (IF \E j \in 1..6 : DatedHalfOfBuiltSlot(probe.results, j)
         THEN <<"2","0","2","5","-","0","9","-","1","0">>
         ELSE FormatISO(now))

\* midday is built from two results without a date, evening from a dated one
C26_Witness ==
  /\ probe.op = "combinedPair"
  /\ probe.out.midday # Null /\ probe.out.evening # Null
  /\ probe.results[1].date = NoDate /\ probe.results[3].date = NoDate
  /\ probe.results[2].date # NoDate
  /\ probe.out.dateISO = <<"2","0","2","5","-","0","9","-","1","0">>
  /\ probe.out.dateISO # FormatISO(now)

\* the sections of the document whose first heading contains "latest"
\* together with "number" or "result"
Qualifying(doc) ==
  {el \in Range(Find(doc, 0, Tags({"section"}))) :
     LET hd == First(Find(doc, el, Tags({"h1", "h2", "h3"})))
         h  == IF hd = 0 THEN <<>> ELSE Text(doc, hd)
     IN /\ Includes(h, <<"l","a","t","e","s","t">>)
        /\ Includes(h, <<"n","u","m","b","e","r">>) \/ Includes(h, <<"r","e","s","u","l","t">>)}

\* C27: the scope of extractByLabel is the smallest section whose heading
\* contains "latest" together with "number" or "result", also when several
\* sections, nested or side by side, qualify; it is the whole document when
\* none qualifies.
C27_ScopeIsSmallestLatestSection ==
  probe.op = "LatestSection" =>
    LET Q == Qualifying(probe.doc)
    IN IF Q = {} THEN probe.scope = 0
       ELSE /\ probe.scope \in Q
            /\ \A q \in Q : Len(Text(probe.doc, probe.scope)) <= Len(Text(probe.doc, q))

\* the readings the clock can show
Days == {DayAfter(k) : k \in 0..MaxTicks}

FairSpec ==
  /\ InitFixed
  /\ [][\/ RouteUnknown
        \/ RouteThrow
        \/ RouteLaunch
        \/ \E j \in 1..Len(jobs) : FetchFail(j)
        \/ \E j \in 1..Len(jobs) : FetchOk(j)
        \/ Aggregate]_vars
  /\ WF_vars(\/ RouteUnknown \/ RouteThrow \/ RouteLaunch \/ Aggregate
             \/ \E j \in 1..Len(jobs) : FetchFail(j) \/ FetchOk(j))

\* C29: every fetch of a call of tryUrls ends the call or moves it to the
\* next URL of its list, so a list of L URLs is fetched at most once each, L
\* times at most and never again after a failure; and when every fetch ends,
\* the handler eventually answers.
C29_TryUrlsTerminates ==
  /\ [][\A j \in 1..Len(jobs) :
          jobs'[j] # jobs[j] =>
            /\ jobs[j].st = "fetching"
            /\ jobs[j].i <= Len(jobs[j].urls)
            /\ \/ jobs'[j].i = jobs[j].i /\ jobs'[j].st = "done"
               \/ jobs'[j].i = jobs[j].i + 1]_vars
  /\ <>(pc = "done")

\* the report is sent after a call with three URLs has fetched the first,
\* which timed out, and the second, and never the third
C29_Witness ==
  /\ Reported
  /\ \E j \in 1..Len(jobs) :
       /\ Len(jobs[j].urls) = 3
       /\ Throws(Only(j, 1))
       /\ jobs[j].i = 2
       /\ jobs[j].st = "done"

\* C30: the digits and the date a call of tryUrls returns come from one
\* document: with digits, the result is what the page of the URL that gave
\* the digits yields on a day the clock has shown, its date included, whatever
\* dates the pages fetched before it showed; without digits the date is null.
C30_DigitsAndDateFromOneDocument ==
  \A j \in 1..Len(jobs) :
    jobs[j].st = "done" =>
      IF jobs[j].res.digits = Null THEN jobs[j].res.date = NoDate
      ELSE /\ jobs[j].i <= Len(jobs[j].urls)
           /\ ~Throws(Only(j, jobs[j].i))
           /\ \E d \in DaysSoFar :
                /\ jobs[j].res.digits = Yield(j, jobs[j].i, d).digits
                /\ jobs[j].res.date = Yield(j, jobs[j].i, d).date

\* the first page gave a date and no digits, the second digits and another
\* date or none: the call returns the second page's
C30_Witness ==
  /\ jobs # <<>>
  /\ jobs[1].st = "done" /\ jobs[1].i = 2
  /\ jobs[1].res.digits # Null
  /\ ~Throws(Only(1, 1))
  /\ Yield(1, 1, Day0).digits = Null
  /\ Yield(1, 1, Day0).date # NoDate
  /\ jobs[1].res.date # Yield(1, 1, Day0).date
  /\ jobs[1].res.date # Yield(1, 1, now).date

====
